---- MODULE Spec2Model ----
(***************************************************************************)
(* S-parameter extraction pipeline of brain-emi-simulation.                *)
(*                                                                         *)
(* Four scripts build a scattering matrix from one result container per    *)
(* transmit port (a "Run"):                                                *)
(*   wave : extract_sparameters.compute_s_matrix        (b_i / a_j)        *)
(*   port : extract_port_sparameters.extract_s_matrix_from_monopole_...    *)
(*   rx   : extract_rx_sparameters.process_multistatic_data                *)
(*   gen  : generate_s16p.py, step 3                                       *)
(* Around the builders: the Touchstone writers of the four scripts,        *)
(* validate_s16p (parser and checks), the plotting parser of               *)
(* generate_all_sij.py, process_scenario and main of extract_sparameters,  *)
(* and the input decks of the three generator scripts.                     *)
(*                                                                         *)
(* Numbers.  A spectrum value (one bin of np.fft.rfft of a port's time     *)
(* series; rfft is numpy, not repository code) is a Gaussian integer       *)
(* <<re, im>> counted in a quantum q.  A matrix entry is an exact complex  *)
(* rational [re, im, den] with den > 0, or a non-finite value (den = 0).   *)
(*   wave builder : q = 1e-29, so that |a_j| > 1e-30 with                  *)
(*                  a_j = (V + Z0*I) / (2*sqrt(Z0)) is exactly             *)
(*                  |V + Z0*I|^2 > 4*Z0*(1e-30)^2 = 2 q^2;                 *)
(*   ratio builders: q = 5e-21, so that the additive 1e-20 is 2 q.         *)
(* Python indices are 0-based (S[rx-1, tx-1]); the model indexes ports,    *)
(* rows and columns from 1.                                                *)
(***************************************************************************)
EXTENDS Integers, Sequences, FiniteSets, TLC

\* ---------------------------------------------------------------- bounds
\* number of ports of the array (N_PORTS = 16 in the scripts)
N_PORTS == 3
\* the most words a file read from the disk has lost at its end
MaxCut == 2
\* the last scenario of the data set (--all is range(1, 301) in the script)
LastScenario == 3
\* f.attrs['Iterations'] of every container: rfft yields Iterations \div 2 + 1 bins
Iterations == 4

\* ------------------------------------------------------ program constants
\* reference impedance, Ohm
Z0 == 50
\* F_MAX = 2e9 Hz, in MHz
F_MAX == 2000
\* (1e-30)^2 * 4 * Z0 in q^2 (q = 1e-29): the guard np.abs(a_j) > 1e-30
WaveFloorSq == 2
\* the additive 1e-20 of the ratio builders, in q (q = 5e-21)
Eps20 == 2
\* monopole_height = 0.0375 = 3/80
HeightNum == 3
HeightDen == 80

Ports == 1 .. N_PORTS
None == << >>

\* ------------------------------------------------------ complex arithmetic
Abs(n) == IF n < 0 THEN -n ELSE n

RECURSIVE GCD(_, _)
GCD(a, b) == IF b = 0 THEN a ELSE GCD(b, a % b)

CZero == [re |-> 0, im |-> 0, den |-> 1]
NaN   == [re |-> 0, im |-> 0, den |-> 0]
Inf   == [re |-> 1, im |-> 0, den |-> 0]

IsFinite(s) == s.den # 0

\* the complex rational (re + i im) / den, den > 0, in lowest terms
Q(re, im, den) ==
    LET g == GCD(GCD(Abs(re), Abs(im)), den)
    IN  [re |-> re \div g, im |-> im \div g, den |-> den \div g]

\* |z|^2 of a Gaussian integer
AbsSq(z) == z[1] * z[1] + z[2] * z[2]

\* np.abs of a Gaussian integer on an axis (every spectrum value of the model is)
CAbs(z) == Abs(z[1]) + Abs(z[2])

CAdd(x, y) == <<x[1] + y[1], x[2] + y[2]>>
CSub(x, y) == <<x[1] - y[1], x[2] - y[2]>>
CScale(k, x) == <<k * x[1], k * x[2]>>

\* numpy's x / y on complex numbers: x * conj(y) / |y|^2, non-finite for y = 0
CDiv(x, y) ==
    IF AbsSq(y) = 0
    THEN IF AbsSq(x) = 0 THEN NaN ELSE Inf
    ELSE Q(x[1] * y[1] + x[2] * y[2], x[2] * y[1] - x[1] * y[2], AbsSq(y))

\* ------------------------------------------------------ result containers
\* One HDF5 result file.  group: the top-level port group ('tls' or 'rxs') is
\* there; ports: port index -> [V, I], the one-sided spectra of the two
\* recorded series (V and I of a transmission line; Ez and Hx of a receiver),
\* one value per bin 0 .. Iterations \div 2; dt in picoseconds.
Dts == {200}

\* what the result files of the scenario at hand can hold: their time steps,
\* iteration counts, transmit profiles and absent ports
VARIABLE inputs

NBins(n_it) == n_it \div 2 + 1

\* <<V, I>> at the transmitting port of a Run:
\*   matched load (V = Z0*I), open circuit (I = 0), an open circuit below the
\*   numerical floor, and a dead port (no signal at all)
TxProfiles ==
    << << <<50, 0>>, <<1, 0>> >>,
       << <<0, 2>>,  <<0, 0>> >>,
       << <<1, 0>>,  <<0, 0>> >>,
       << <<0, 0>>,  <<0, 0>> >> >>

Profile(k, f) == TxProfiles[((k + f - 2) % Len(TxProfiles)) + 1]

\* what a passive port p records in the Run of transmitter t at bin f
RxV(t, p, f) ==
    IF (p + f) % 2 = 0 THEN <<N_PORTS * t + p + f, 0>>
                       ELSE <<0, N_PORTS * t + p + f>>
RxI(t, p, f) == <<(p + f) % 2, 0>>

NoGroup(d) == [group |-> FALSE, dt |-> d, Iterations |-> Iterations, ports |-> << >>]

\* the container of the Run of transmitter t: profile k at port t, port m absent
\* (m = 0: every port is there), time step d, n iterations
MkContainer(t, k, m, d, n) ==
    [group |-> TRUE, dt |-> d, Iterations |-> n,
     ports |-> [p \in Ports \ {m} |->
        [V |-> [f \in 1 .. NBins(n) |->
                    IF p = t THEN Profile(k, f)[1] ELSE RxV(t, p, f)],
         I |-> [f \in 1 .. NBins(n) |->
                    IF p = t THEN Profile(k, f)[2] ELSE RxI(t, p, f)]]]]

\* every scenario of the data set: one time step and one iteration count
SameAxis ==
    [dts |-> Dts, its |-> {Iterations},
     ks |-> 1 .. Len(TxProfiles), ms |-> 0 .. N_PORTS]

\* files whose time step or iteration count is not the same from Run to Run
\* (every port present, the first transmit profile)
MixedAxis ==
    [dts |-> Dts \cup {300}, its |-> {Iterations, Iterations + 1},
     ks |-> {1}, ms |-> {0}]

Containers(t) ==
    {NoGroup(d) : d \in inputs.dts}
    \cup {MkContainer(t, k, m, d, n) :
            k \in inputs.ks, m \in inputs.ms, d \in inputs.dts, n \in inputs.its}

\* ------------------------------------------------------------ port readers
Raise == [raised |-> TRUE, ports |-> << >>, dt |-> 0, iterations |-> 0]

read_tl_data_unchecked(c) ==
    [raised |-> FALSE, ports |-> c.ports, dt |-> c.dt, iterations |-> c.Iterations]

\* extract_sparameters.read_tl_data: KeyError without the 'tls' group
read_tl_data(c) ==
    IF ~c.group THEN Raise
    ELSE [raised |-> FALSE, ports |-> c.ports, dt |-> c.dt, iterations |-> c.Iterations]

\* extract_port_sparameters.read_transmission_line_ports
read_transmission_line_ports(c) ==
    IF ~c.group THEN Raise
    ELSE [raised |-> FALSE, ports |-> c.ports, dt |-> c.dt, iterations |-> c.Iterations]

\* extract_rx_sparameters.read_receiver_data
read_receiver_data(c) ==
    IF ~c.group THEN Raise
    ELSE [raised |-> FALSE, ports |-> c.ports, dt |-> c.dt, iterations |-> c.Iterations]

\* generate_s16p.extract_field_data: f['rxs/rx{i}'] for every i in 1..num_ports,
\* KeyError when the group or any one receiver is absent
extract_field_data(c) ==
    IF ~c.group \/ DOMAIN c.ports # Ports THEN Raise
    ELSE [raised |-> FALSE, ports |-> c.ports, dt |-> c.dt, iterations |-> c.Iterations]

\* ------------------------------------------------------------------ state
VARIABLES
    prog,         \* the script that runs: "wave", "port", "rx" or "gen"
    exists,       \* transmit ports whose result file is on disk
    runs,         \* transmit port -> container, for the files read so far
    pc,           \* "loop", "done" (returned) or "raised" (left by an exception)
    tx,           \* loop variable: tx (wave), tx_idx + 1 (port, rx), i + 1 (gen)
    S,            \* S / S_matrix: None or row -> column -> bin -> entry
    freqs,        \* freqs / frequencies / freq: None or the frequency axis
    freq_mask,    \* compute_s_matrix's freq_mask
    Ez_incident,  \* process_multistatic_data's local Ez_incident (None: unbound)
    log,          \* the lines printed about ports, files and columns
    rd,           \* what the last reader call was given and returned
    files,        \* the Touchstone files written, in the order of the calls
    parsed,       \* None or <<freqs, S>> as returned by parse_s16p
    result,       \* what process_scenario returned: "none", "True" or "False"
    scenario_id,  \* the scenario at hand
    args,         \* main's parsed command line; write_scenario's arguments
    ids,          \* main's ids
    pos,          \* how many of the ids the loop of main has taken
    ok,           \* main's counters
    fail,
    skip,
    calls         \* the arguments of the calls of process_scenario, in order

vars == <<prog, exists, runs, pc, tx, S, freqs, freq_mask, Ez_incident, log, rd,
          inputs, files, parsed, result, scenario_id,
          args, ids, pos, ok, fail, skip, calls>>

\* the state of extract_sparameters.main
driver == <<args, ids, pos, ok, fail, skip, calls>>

\* the state behind the builders: the files' contents, the writer, the validator
aux == <<inputs, files, parsed, result, scenario_id,
         args, ids, pos, ok, fail, skip, calls>>

\* main is not running: no command line, no ids, nothing counted
NoArgs == [scenario |-> << >>, all |-> FALSE, range |-> << >>]
NoDriver ==
    /\ args = NoArgs /\ ids = << >> /\ pos = 0
    /\ ok = 0 /\ fail = 0 /\ skip = 0
    /\ calls = << >>

Progs == {"wave", "port", "rx", "gen"}

NoRead == [file |-> 0, raised |-> FALSE, ports |-> << >>]

InitWith(P, inp) ==
    /\ prog \in P
    /\ exists \in SUBSET Ports
    /\ runs = << >>
    /\ pc = IF prog = "wave" THEN "loop" ELSE "start"
    /\ tx = 1
    /\ S = None
    /\ freqs = None
    /\ freq_mask = None
    /\ Ez_incident = None
    /\ log = << >>
    /\ rd = NoRead
    /\ inputs = inp
    /\ files = << >>
    /\ parsed = None
    /\ result = "none"
    /\ scenario_id = 1
    /\ NoDriver

InitFor(P) == InitWith(P, SameAxis)

Init == InitFor(Progs)

\* a printed line: its text, the port, column or count it names, and the pass
\* of the loop over the Runs that printed it (0: before the loop)
Line(msg, n, run) == [msg |-> msg, n |-> n, run |-> run]

\* sorted(glob.glob(...)): the files found, in the order of their tx number
RECURSIVE SortedSeq(_)
SortedSeq(s) ==
    IF s = {} THEN << >>
    ELSE LET m == CHOOSE x \in s : \A y \in s : x <= y
         IN  <<m>> \o SortedSeq(s \ {m})
output_files == SortedSeq(exists)

\* np.zeros((n, n, n_freq), dtype=complex)
zeros(n_freq) == [i \in Ports |-> [j \in Ports |-> [f \in 1 .. n_freq |-> CZero]]]

rfftfreq_per_step(n_it, dt) == [i \in 1 .. NBins(n_it) |-> <<i - 1, dt>>]

\* np.fft.rfftfreq(n_it, dt): bin k is k / (n_it * dt), kept as <<k, n_it * dt>>
rfftfreq(n_it, dt) == [i \in 1 .. NBins(n_it) |-> <<i - 1, n_it * dt>>]

\* x[mask] for a boolean mask of the same length
RECURSIVE MaskFrom(_, _, _)
MaskFrom(x, mask, k) ==
    IF k > Len(x) THEN << >>
    ELSE (IF mask[k] THEN <<x[k]>> ELSE << >>) \o MaskFrom(x, mask, k + 1)
Masked(x, mask) == MaskFrom(x, mask, 1)

\* ============================ extract_sparameters.compute_s_matrix (wave)
\* all_freqs <= F_MAX, with dt in ps and F_MAX in MHz
FreqMask(n_it, dt) ==
    [i \in 1 .. NBins(n_it) |-> (i - 1) * 1000000 <= F_MAX * n_it * dt]

\* a_j = (V_tx + Z0 * I_tx) / (2 * sqrt(Z0)), times 2 * sqrt(Z0)
a_wave(V, I) == CAdd(V, CScale(Z0, I))

b_wave_plus(V, I) == CAdd(V, CScale(Z0, I))
\* b_i = (V_rx - Z0 * I_rx) / (2 * sqrt(Z0)), times 2 * sqrt(Z0)
b_wave(V, I) == CSub(V, CScale(Z0, I))

WaveEntryUnguarded(a, b) == CDiv(b, a)
\* np.where(np.abs(a_j) > 1e-30, b_i / a_j, 0.0) at one bin
WaveEntry(a, b) == IF AbsSq(a) > WaveFloorSq THEN CDiv(b, a) ELSE CZero

WaveStoreTransposed(S0, rx, txp, col) == [S0 EXCEPT ![txp][rx] = col]
\* S[rx-1, tx-1, :] = ...
WaveStore(S0, rx, txp, col) == [S0 EXCEPT ![rx][txp] = col]

\* the column of receive port rx in the Run of transmitter txp
WaveColumn(tls, rx, txp, mask) ==
    LET V_tx == Masked(tls[txp].V, mask)
        I_tx == Masked(tls[txp].I, mask)
        V_rx == Masked(tls[rx].V, mask)
        I_rx == Masked(tls[rx].I, mask)
    IN  [f \in 1 .. Len(V_tx) |->
            WaveEntry(a_wave(V_tx[f], I_tx[f]), b_wave(V_rx[f], I_rx[f]))]

\* for rx in range(1, N_PORTS + 1): if rx not in tls: continue; ...
RECURSIVE WaveRxLoop(_, _, _, _, _)
WaveRxLoop(S0, tls, txp, mask, rx) ==
    IF rx > N_PORTS THEN S0
    ELSE WaveRxLoop(IF rx \in DOMAIN tls
                    THEN WaveStore(S0, rx, txp, WaveColumn(tls, rx, txp, mask))
                    ELSE S0,
                    tls, txp, mask, rx + 1)

WaveMissingSilent ==
    /\ prog = "wave" /\ pc = "loop" /\ tx <= N_PORTS /\ tx \notin exists
    /\ tx' = tx + 1
    /\ UNCHANGED <<prog, exists, runs, pc, S, freqs, freq_mask, Ez_incident, log, rd>>
    /\ UNCHANGED aux

\* the file of Run tx is absent: warn and go on with the next Run
WaveMissing ==
    /\ prog = "wave" /\ pc = "loop" /\ tx <= N_PORTS /\ tx \notin exists
    /\ log' = Append(log, Line("WARNING: missing file, skipping column", tx, tx))
    /\ tx' = tx + 1
    /\ UNCHANGED <<prog, exists, runs, pc, S, freqs, freq_mask, Ez_incident, rd>>
    /\ UNCHANGED aux

\* one pass of the loop over tx for a file that is there
WaveRun ==
    /\ prog = "wave" /\ pc = "loop" /\ tx <= N_PORTS /\ tx \in exists
    /\ \E c \in Containers(tx) :
        LET r     == read_tl_data(c)
            first == freqs = None
            mask  == IF first THEN FreqMask(r.iterations, r.dt) ELSE freq_mask
            fr    == IF first THEN Masked(rfftfreq(r.iterations, r.dt), mask) ELSE freqs
            S0    == IF first THEN zeros(Len(fr)) ELSE S
            \* tls[tx] raises KeyError; a spectrum of another length than the
            \* mask raises IndexError
            bad   == tx \notin DOMAIN r.ports \/ NBins(r.iterations) # Len(mask)
        IN  /\ runs' = (tx :> c) @@ runs
            /\ rd' = [file |-> tx, raised |-> r.raised, ports |-> r.ports]
            /\ IF r.raised
                  THEN /\ pc' = "raised"
                       /\ UNCHANGED <<tx, S, freqs, freq_mask>>
                  ELSE /\ freqs' = fr
                       /\ freq_mask' = mask
                       /\ IF bad
                             THEN /\ pc' = "raised"
                                  /\ S' = S0
                                  /\ tx' = tx
                             ELSE /\ pc' = "loop"
                                  /\ S' = WaveRxLoop(S0, r.ports, tx, mask, 1)
                                  /\ tx' = tx + 1
    /\ UNCHANGED <<prog, exists, Ez_incident, log>>
    /\ UNCHANGED aux

\* return S, freqs
WaveReturn ==
    /\ prog = "wave" /\ pc = "loop" /\ tx = N_PORTS + 1
    /\ pc' = "done"
    /\ UNCHANGED <<prog, exists, runs, tx, S, freqs, freq_mask, Ez_incident, log, rd>>
    /\ UNCHANGED aux

NextWave == WaveMissing \/ WaveRun \/ WaveReturn

SpecWave == InitFor({"wave"}) /\ [][NextWave]_vars

\* ====== extract_port_sparameters.extract_s_matrix_from_monopole_simulations
\* compute_port_sparameters at one bin: Z_port = V_f / (I_f + 1e-20),
\* S11 = (Z_port - Z0) / (Z_port + Z0)
compute_port_sparameters(V_f, I_f) ==
    LET Z_port == CDiv(V_f, CAdd(I_f, <<Eps20, 0>>))
    IN  IF ~IsFinite(Z_port) THEN NaN
        ELSE CDiv(<<Z_port.re - Z0 * Z_port.den, Z_port.im>>,
                  <<Z_port.re + Z0 * Z_port.den, Z_port.im>>)

\* S_ij = V_rx_f / (V_incident_f + 1e-20) at one bin
PortTransmission(V_rx_f, V_incident_f) ==
    CDiv(V_rx_f, CAdd(V_incident_f, <<Eps20, 0>>))

\* S_matrix[tx_idx, rx_port-1, :] = ...
PortStore(S0, tx_idx, rx_port, col) == [S0 EXCEPT ![tx_idx][rx_port] = col]

PortColumn(ports, rx_port, tx_port) ==
    [f \in 1 .. Len(ports[rx_port].V) |->
        IF rx_port = tx_port
        THEN compute_port_sparameters(ports[rx_port].V[f], ports[rx_port].I[f])
        ELSE PortTransmission(ports[rx_port].V[f], ports[tx_port].V[f])]

\* for rx_port in range(1, n_ports + 1): ...   st = [S, log]
RECURSIVE PortRxLoop(_, _, _, _)
PortRxLoop(st, ports, tx_port, rx_port) ==
    IF rx_port > N_PORTS THEN st
    ELSE IF rx_port \notin DOMAIN ports
    THEN PortRxLoop([st EXCEPT !.log = Append(@,
                        Line("Warning: RX port not found, skipping", rx_port, tx_port))],
                    ports, tx_port, rx_port + 1)
    ELSE PortRxLoop([st EXCEPT !.S = PortStore(@, tx_port, rx_port,
                                        PortColumn(ports, rx_port, tx_port))],
                    ports, tx_port, rx_port + 1)

\* output_files = sorted(glob.glob(...)); warning when their number is not n_ports
PortGlob ==
    /\ prog = "port" /\ pc = "start"
    /\ pc' = "loop"
    /\ log' = IF Len(output_files) # N_PORTS
              THEN Append(log, Line("Warning: Expected n_ports output files",
                                    Len(output_files), 0))
              ELSE log
    /\ UNCHANGED <<prog, exists, runs, tx, S, freqs, freq_mask, Ez_incident, rd>>
    /\ UNCHANGED aux

\* one pass of `for tx_idx, output_file in enumerate(output_files)`
PortRun ==
    /\ prog = "port" /\ pc = "loop" /\ tx <= Len(output_files)
    /\ \E c \in Containers(output_files[tx]) :
        LET r     == read_transmission_line_ports(c)
            first == freqs = None
            fr    == IF first THEN rfftfreq(r.iterations, r.dt) ELSE freqs
            S0    == IF first THEN zeros(Len(fr)) ELSE S
            st    == PortRxLoop([S |-> S0, log |-> log], r.ports, tx, 1)
        IN  /\ runs' = (output_files[tx] :> c) @@ runs
            /\ rd' = [file |-> output_files[tx], raised |-> r.raised, ports |-> r.ports]
            /\ IF r.raised
                  THEN /\ log' = Append(log, Line("Error reading file", tx, tx))
                       /\ tx' = tx + 1
                       /\ UNCHANGED <<pc, S, freqs>>
                  ELSE /\ freqs' = fr
                       /\ IF tx \notin DOMAIN r.ports
                             THEN /\ log' = Append(log,
                                        Line("Error: TX port not found in output", tx, tx))
                                  /\ S' = S0
                                  /\ tx' = tx + 1
                                  /\ pc' = pc
                             ELSE IF NBins(r.iterations) # Len(fr)
                             \* an array of another length cannot be stored
                             THEN /\ pc' = "raised"
                                  /\ S' = S0
                                  /\ UNCHANGED <<tx, log>>
                             ELSE /\ S' = st.S
                                  /\ log' = Append(st.log,
                                        Line("Extracted column of S-matrix", tx, tx))
                                  /\ tx' = tx + 1
                                  /\ pc' = pc
    /\ UNCHANGED <<prog, exists, freq_mask, Ez_incident>>
    /\ UNCHANGED aux

\* return S_matrix, freqs
PortReturn ==
    /\ prog = "port" /\ pc = "loop" /\ tx = Len(output_files) + 1
    /\ pc' = "done"
    /\ UNCHANGED <<prog, exists, runs, tx, S, freqs, freq_mask, Ez_incident, log, rd>>
    /\ UNCHANGED aux

\* ================= extract_rx_sparameters.process_multistatic_data (rx)
\* S = V_received / (V_incident + 1e-20), V = Ez * monopole_height, at one bin
compute_sparameters_from_efield(Ez_inc, Ez_received) ==
    CDiv(CScale(HeightNum, Ez_received),
         CAdd(CScale(HeightNum, Ez_inc), <<HeightDen * Eps20, 0>>))

\* np.max(np.abs(Ez_freq))
RECURSIVE MaxAbsFrom(_, _)
MaxAbsFrom(x, k) ==
    IF k > Len(x) THEN 0
    ELSE LET m == MaxAbsFrom(x, k + 1)
         IN  IF CAbs(x[k]) > m THEN CAbs(x[k]) ELSE m
MaxAbs(x) == MaxAbsFrom(x, 1)

\* Ez_freq / (np.max(np.abs(Ez_freq)) + 1e-20)
RxReflection(Ez_freq) ==
    [f \in 1 .. Len(Ez_freq) |->
        Q(Ez_freq[f][1], Ez_freq[f][2], MaxAbs(Ez_freq) + Eps20)]

\* S_matrix[:, tx_idx, rx_num - 1] = ...; the writer puts S_matrix[i, tx, rx]
\* at row tx, column rx
RxStore(S0, tx_idx, rx_num, col) == [S0 EXCEPT ![tx_idx][rx_num] = col]

\* for rx_num in range(1, n_antennas + 1): ...   st = [S, Ez, log, exc]
\* (every receiver of a container carries its Ez series)
RECURSIVE RxRxLoop(_, _, _, _)
RxRxLoop(st, receivers, tx_num, rx_num) ==
    IF rx_num > N_PORTS \/ st.exc THEN st
    ELSE IF rx_num \notin DOMAIN receivers
    THEN RxRxLoop([st EXCEPT !.log = Append(@,
                        Line("WARNING: Receiver not found", rx_num, tx_num))],
                  receivers, tx_num, rx_num + 1)
    ELSE LET Ez_freq == receivers[rx_num].V
         IN  IF rx_num = tx_num
             THEN IF Len(Ez_freq) # Len(st.S[tx_num][rx_num])
                  THEN [st EXCEPT !.Ez = Ez_freq, !.exc = TRUE]
                  ELSE RxRxLoop([st EXCEPT !.Ez = Ez_freq,
                                    !.S = RxStore(@, tx_num, rx_num, RxReflection(Ez_freq))],
                                receivers, tx_num, rx_num + 1)
             \* Ez_incident unbound, or arrays of different lengths: an exception
             ELSE IF st.Ez = None \/ Len(st.Ez) # Len(Ez_freq)
                     \/ Len(Ez_freq) # Len(st.S[tx_num][rx_num])
                  THEN [st EXCEPT !.exc = TRUE]
                  ELSE RxRxLoop([st EXCEPT !.S = RxStore(@, tx_num, rx_num,
                                    [f \in 1 .. Len(Ez_freq) |->
                                        compute_sparameters_from_efield(st.Ez[f], Ez_freq[f])])],
                                receivers, tx_num, rx_num + 1)

\* output_files = sorted(glob.glob(...)); FileNotFoundError when there is none
RxGlob ==
    /\ prog = "rx" /\ pc = "start"
    /\ pc' = IF Len(output_files) = 0 THEN "raised" ELSE "loop"
    /\ log' = IF Len(output_files) # N_PORTS /\ Len(output_files) # 0
              THEN Append(log, Line("WARNING: Expected n_antennas files",
                                    Len(output_files), 0))
              ELSE log
    /\ UNCHANGED <<prog, exists, runs, tx, S, freqs, freq_mask, Ez_incident, rd>>
    /\ UNCHANGED aux

\* one pass of `for tx_idx, out_file in enumerate(output_files)`: the body is
\* one try block, whose except logs the error and continues
RxRun ==
    /\ prog = "rx" /\ pc = "loop" /\ tx <= Len(output_files)
    /\ \E c \in Containers(output_files[tx]) :
        LET r     == read_receiver_data(c)
            first == freqs = None
            fr    == IF first THEN rfftfreq(r.iterations, r.dt) ELSE freqs
            S0    == IF first THEN zeros(NBins(r.iterations)) ELSE S
            warn  == IF Cardinality(DOMAIN r.ports) # N_PORTS
                     THEN Append(log, Line("WARNING: Expected n_antennas receivers",
                                           Cardinality(DOMAIN r.ports), tx))
                     ELSE log
            st    == RxRxLoop([S |-> S0, Ez |-> Ez_incident, log |-> warn, exc |-> FALSE],
                              r.ports, tx, 1)
        IN  /\ runs' = (output_files[tx] :> c) @@ runs
            /\ rd' = [file |-> output_files[tx], raised |-> r.raised, ports |-> r.ports]
            /\ IF r.raised
                  THEN /\ log' = Append(log, Line("Error processing file", tx, tx))
                       /\ UNCHANGED <<S, freqs, Ez_incident>>
                  ELSE /\ freqs' = fr
                       /\ S' = st.S
                       /\ Ez_incident' = st.Ez
                       /\ log' = IF st.exc
                                 THEN Append(st.log, Line("Error processing file", tx, tx))
                                 ELSE Append(st.log, Line("Processed receivers", tx, tx))
            /\ tx' = tx + 1
    /\ UNCHANGED <<prog, exists, pc, freq_mask>>
    /\ UNCHANGED aux

\* the closing prints read len(frequencies): TypeError when it is still None
RxReturn ==
    /\ prog = "rx" /\ pc = "loop" /\ tx = Len(output_files) + 1
    /\ pc' = IF freqs = None THEN "raised" ELSE "done"
    /\ UNCHANGED <<prog, exists, runs, tx, S, freqs, freq_mask, Ez_incident, log, rd>>
    /\ UNCHANGED aux

\* ======================================== generate_s16p.py, steps 2-3 (gen)
\* calculate_s_matrix_column at one bin: E_freq / V_incident_safe, with
\* V_incident_safe = np.where(np.abs(V_incident) < 1e-20, 1e-20, V_incident)
calculate_s_matrix_column(E_freq, V_incident) ==
    LET V_incident_safe ==
            IF AbsSq(V_incident) < Eps20 * Eps20 THEN <<Eps20, 0>> ELSE V_incident
    IN  CDiv(E_freq, V_incident_safe)

\* S_matrix[:, i, :] = S_column
GenStore(S0, i, S_column) == [r \in Ports |-> [S0[r] EXCEPT ![i] = S_column[r]]]

\* step 2 collected output_files; with fewer than num_ports the user is asked
\* whether to continue with partial data
GenContinue ==
    /\ prog = "gen" /\ pc = "start"
    /\ pc' = "loop"
    /\ log' = IF Len(output_files) < N_PORTS
              THEN Append(log, Line("WARNING: Only some simulations completed",
                                    Len(output_files), 0))
              ELSE log
    /\ UNCHANGED <<prog, exists, runs, tx, S, freqs, freq_mask, Ez_incident, rd>>
    /\ UNCHANGED aux

GenAbort ==
    /\ prog = "gen" /\ pc = "start" /\ Len(output_files) < N_PORTS
    /\ pc' = "aborted"
    /\ log' = Append(log, Line("WARNING: Only some simulations completed",
                               Len(output_files), 0))
    /\ UNCHANGED <<prog, exists, runs, tx, S, freqs, freq_mask, Ez_incident, rd>>
    /\ UNCHANGED aux

\* one pass of `for i, output_file in enumerate(output_files)` of step 3
GenRun ==
    /\ prog = "gen" /\ pc = "loop" /\ tx <= Len(output_files)
    /\ \E c \in Containers(output_files[tx]) :
        LET r        == extract_field_data(c)
            first    == S = None
            fr       == IF first THEN rfftfreq(r.iterations, r.dt) ELSE freqs
            S0       == IF first THEN zeros(Len(fr)) ELSE S
            S_column == [p \in Ports |-> [f \in 1 .. NBins(r.iterations) |->
                            calculate_s_matrix_column(r.ports[p].V[f], r.ports[tx].V[f])]]
        IN  /\ runs' = (output_files[tx] :> c) @@ runs
            /\ rd' = [file |-> output_files[tx], raised |-> r.raised, ports |-> r.ports]
            /\ IF r.raised
                  THEN /\ pc' = "raised"
                       /\ UNCHANGED <<tx, S, freqs, log>>
                  ELSE /\ freqs' = fr
                       /\ IF NBins(r.iterations) # Len(fr)
                             THEN /\ pc' = "raised"
                                  /\ S' = S0
                                  /\ UNCHANGED <<tx, log>>
                             ELSE /\ S' = GenStore(S0, tx, S_column)
                                  /\ log' = Append(log,
                                        Line("S-matrix column calculated", tx, tx))
                                  /\ tx' = tx + 1
                                  /\ pc' = pc
    /\ UNCHANGED <<prog, exists, freq_mask, Ez_incident>>
    /\ UNCHANGED aux

\* the loop of step 3 is over
GenDone ==
    /\ prog = "gen" /\ pc = "loop" /\ tx = Len(output_files) + 1
    /\ pc' = "done"
    /\ UNCHANGED <<prog, exists, runs, tx, S, freqs, freq_mask, Ez_incident, log, rd>>
    /\ UNCHANGED aux

Next ==
    \/ WaveMissing \/ WaveRun \/ WaveReturn
    \/ PortGlob \/ PortRun \/ PortReturn
    \/ RxGlob \/ RxRun \/ RxReturn
    \/ GenContinue \/ GenAbort \/ GenRun \/ GenDone

Spec == Init /\ [][Next]_vars

\* the four builders on files of mixed time steps and iteration counts
SpecAxis == InitWith(Progs, MixedAxis) /\ [][Next]_vars

\* ============================================== numbers as written in a file
\* A real number handed to a format: the rational n / d * 10^x10, or, where
\* numpy's result has no exact form here (np.abs and np.angle of a value off
\* the axes), the function fn of the entry z; fn is "nan" or "inf" for numpy's
\* non-finite results.
Real(n, d, x10) == [fn |-> "", n |-> n, d |-> d, x10 |-> x10, z |-> CZero]
RealOf(fn, z)   == [fn |-> fn, n |-> 0, d |-> 1, x10 |-> 0, z |-> z]

\* np.abs of a matrix entry
np_abs(z) ==
    IF z.den = 0 THEN RealOf(IF z = NaN THEN "nan" ELSE "inf", CZero)
    ELSE IF z.im = 0 THEN Real(Abs(z.re), z.den, 0)
    ELSE IF z.re = 0 THEN Real(Abs(z.im), z.den, 0)
    ELSE RealOf("abs", z)

\* np.degrees(np.angle(z)), np.angle(z, deg=True)
np_angle_deg(z) ==
    IF z.den = 0 THEN RealOf("nan", CZero)
    ELSE IF z.im = 0 THEN Real(IF z.re < 0 THEN 180 ELSE 0, 1, 0)
    ELSE IF z.re = 0 THEN Real(IF z.im < 0 THEN -90 ELSE 90, 1, 0)
    ELSE RealOf("angle", z)

\* A number as text: sign, decimal digits and the power of ten of the last
\* digit (the text 1.20000000e+00 is digits 1,2,0,...,0 with scale -8, the
\* text 90.000000 is digits 9,0,0,...,0 with scale -6); kind "sym" stands for
\* the digits of a number that has no exact form here.
Tok(neg, digits, scale) ==
    [kind |-> "dec", neg |-> neg, digits |-> digits, scale |-> scale,
     fn |-> "", z |-> CZero]
TokOf(kind, fn, z, scale) ==
    [kind |-> kind, neg |-> FALSE, digits |-> << >>, scale |-> scale,
     fn |-> fn, z |-> z]

\* the decimal exponent of a / d, a > 0: 1 <= (a / d) / 10^e < 10
RECURSIVE Exp10(_, _)
Exp10(a, d) ==
    IF a \div d >= 10 THEN 1 + Exp10(a, 10 * d)
    ELSE IF a < d THEN Exp10(10 * a, d) - 1
    ELSE 0

\* a and d scaled so that 1 <= a / d < 10
RECURSIVE Scaled(_, _)
Scaled(a, d) ==
    IF a \div d >= 10 THEN Scaled(a, 10 * d)
    ELSE IF a < d THEN Scaled(10 * a, d)
    ELSE <<a, d>>

\* k digits of the long division r / d (r < 10 d), and what is left of r
RECURSIVE LongDiv(_, _, _)
LongDiv(r, d, k) ==
    IF k = 0 THEN [ds |-> << >>, r |-> r]
    ELSE LET rest == LongDiv((r % d) * 10, d, k - 1)
         IN  [ds |-> <<r \div d>> \o rest.ds, r |-> rest.r]

\* the digits of the natural number m, at least one
RECURSIVE IntDigits(_)
IntDigits(m) == IF m < 10 THEN <<m>> ELSE Append(IntDigits(m \div 10), m % 10)

\* a digit string plus one unit in its last place (one digit longer on overflow)
RECURSIVE Incr(_)
Incr(ds) ==
    IF ds = << >> THEN <<1>>
    ELSE IF ds[Len(ds)] < 9 THEN [ds EXCEPT ![Len(ds)] = @ + 1]
    ELSE Append(Incr(SubSeq(ds, 1, Len(ds) - 1)), 0)

\* round-half-even of the digits ds followed by the remainder r / (10 d)
Rounded(ds, r, d) ==
    IF 2 * r > 10 * d \/ (2 * r = 10 * d /\ ds[Len(ds)] % 2 = 1)
    THEN Incr(ds) ELSE ds

\* format(x, ".Pe"): one digit, P decimals, the exponent
FmtE(x, P) ==
    IF x.fn \in {"nan", "inf"} THEN TokOf(x.fn, "", CZero, 0)
    ELSE IF x.fn # "" THEN TokOf("sym", x.fn, x.z, -P)
    ELSE IF x.n = 0 THEN Tok(FALSE, [k \in 1 .. P + 1 |-> 0], -P)
    ELSE LET a  == Abs(x.n)
             e  == Exp10(a, x.d) + x.x10
             sc == Scaled(a, x.d)
             q  == LongDiv(sc[1], sc[2], P + 1)
             ds == Rounded(q.ds, q.r, sc[2])
         IN  IF Len(ds) > P + 1
             THEN Tok(x.n < 0, SubSeq(ds, 1, P + 1), e + 1 - P)
             ELSE Tok(x.n < 0, ds, e - P)

\* format(x, ".Pf"): the integer part and P decimals (x10 >= 0)
RECURSIVE Pow10(_)
Pow10(k) == IF k = 0 THEN 1 ELSE 10 * Pow10(k - 1)

FmtF(x, P) ==
    IF x.fn \in {"nan", "inf"} THEN TokOf(x.fn, "", CZero, 0)
    ELSE IF x.fn # "" THEN TokOf("sym", x.fn, x.z, -P)
    ELSE LET a  == Abs(x.n) * Pow10(x.x10)
             q  == LongDiv((a % x.d) * 10, x.d, P)
             ds == Rounded(IntDigits(a \div x.d) \o q.ds, q.r, x.d)
         IN  Tok(x.n < 0, ds, -P)

\* float(text): the number a text denotes -- digits without leading or
\* trailing zeros, sign dropped from zero
RECURSIVE StripLead(_)
StripLead(ds) ==
    IF ds # << >> /\ ds[1] = 0 THEN StripLead(Tail(ds)) ELSE ds

RECURSIVE StripTrail(_)
StripTrail(t) ==
    IF t.digits # << >> /\ t.digits[Len(t.digits)] = 0
    THEN StripTrail([t EXCEPT !.digits = SubSeq(@, 1, Len(@) - 1), !.scale = @ + 1])
    ELSE t

float(t) ==
    IF t.kind # "dec" THEN t
    ELSE LET u == StripTrail([t EXCEPT !.digits = StripLead(@)])
         IN  IF u.digits = << >> THEN Tok(FALSE, << >>, 0) ELSE u

\* ========================================================= Touchstone writers
\* a line of text: c is its first character when that is '!' or '#' ("" for
\* any other), text its fixed words, ints and toks the numbers it carries
Comment(text, ints, toks) == [c |-> "!", text |-> text, ints |-> ints, toks |-> toks]
Option(text, ints)        == [c |-> "#", text |-> text, ints |-> ints, toks |-> << >>]
Data(toks)                == [c |-> "", text |-> "", ints |-> << >>, toks |-> toks]

\* an entry <<k, n_it * dt>> of the frequency axis (dt in ps) in Hz and in GHz
Hz(fq)  == Real(fq[1], fq[2], 12)
GHz(fq) == Real(fq[1], fq[2], 3)

\* for i in range(n_ports): for j in range(n_ports): ... S[i, j, fi]
RowMajor(S_, fi) ==
    [k \in 1 .. N_PORTS * N_PORTS |->
        S_[((k - 1) \div N_PORTS) + 1][((k - 1) % N_PORTS) + 1][fi]]

ColumnMajor(S_, fi) ==
    [k \in 1 .. N_PORTS * N_PORTS |->
        S_[((k - 1) % N_PORTS) + 1][((k - 1) \div N_PORTS) + 1][fi]]

\* the magnitude text and the angle text of the entries from..to of vals
\* (a format is its letter and its number of decimals: ".8e" is <<"e", 8>>)
Fmt(x, spec) == IF spec[1] = "e" THEN FmtE(x, spec[2]) ELSE FmtF(x, spec[2])

RECURSIVE Pairs(_, _, _, _, _)
Pairs(vals, from, to, fmag, fang) ==
    IF from > to THEN << >>
    ELSE <<Fmt(np_abs(vals[from]), fmag), Fmt(np_angle_deg(vals[from]), fang)>>
            \o Pairs(vals, from + 1, to, fmag, fang)

\* ---- extract_sparameters.write_s16p
pairs_per_line == 4

Min(a, b) == IF a < b THEN a ELSE b

row_vals_by_column(S_, fi, from, to) ==
    Pairs(ColumnMajor(S_, fi), from, to, <<"e", 8>>, <<"f", 6>>)

\* row_vals of write_s16p: f"{mag:.8e} {ang:.6f}" per entry
row_vals(S_, fi, from, to) ==
    Pairs(RowMajor(S_, fi), from, to, <<"e", 8>>, <<"f", 6>>)

\* the lines of one frequency block: the frequency, then pairs_per_line pairs
\* on each line
RECURSIVE BlockLines(_, _, _, _)
BlockLines(S_, fq, fi, k) ==
    IF k > N_PORTS * N_PORTS THEN << >>
    ELSE LET to == Min(k + pairs_per_line - 1, N_PORTS * N_PORTS)
         IN  <<Data((IF k = 1 THEN <<FmtE(GHz(fq), 10)>> ELSE << >>)
                    \o row_vals(S_, fi, k, to))>>
                \o BlockLines(S_, fq, fi, to + 1)

RECURSIVE WaveBlocks(_, _, _)
WaveBlocks(S_, freqs_, fi) ==
    IF fi > Len(freqs_) THEN << >>
    ELSE BlockLines(S_, freqs_[fi], fi, 1) \o WaveBlocks(S_, freqs_, fi + 1)

WaveHeader(freqs_, sid) ==
    << Comment("Brain hemorrhage imaging - scenario", <<sid>>, << >>),
       Comment("-port S-parameters, frequency points", <<N_PORTS, Len(freqs_)>>, << >>),
       Comment("Frequency range: - GHz", << >>,
               <<FmtF(GHz(freqs_[1]), 4), FmtF(GHz(freqs_[Len(freqs_)]), 4)>>),
       Comment("Generated by extract_sparameters.py", << >>, << >>),
       Option("GHz S MA R", <<Z0>>) >>

write_s16p_stamped(S_, freqs_, sid) ==
    <<Comment("written", <<Len(files)>>, << >>)>>
        \o WaveHeader(freqs_, sid) \o WaveBlocks(S_, freqs_, 1)

write_s16p(S_, freqs_, sid) == WaveHeader(freqs_, sid) \o WaveBlocks(S_, freqs_, 1)

\* ---- extract_port_sparameters.save_s16p_file: one line per frequency
RECURSIVE PortRows(_, _, _)
PortRows(S_, freqs_, fi) ==
    IF fi > Len(freqs_) THEN << >>
    ELSE <<Data(<<FmtE(GHz(freqs_[fi]), 10)>>
                \o Pairs(RowMajor(S_, fi), 1, N_PORTS * N_PORTS, <<"e", 10>>, <<"e", 10>>))>>
            \o PortRows(S_, freqs_, fi + 1)

port_save_s16p_file(S_, freqs_) ==
    << Comment("Touchstone file - Brain hemorrhage imaging with monopole antennas",
               << >>, << >>),
       Comment("S-parameters from realistic 50 Ohm transmission line ports", << >>, << >>),
       Comment("ports, frequency points", <<N_PORTS, Len(freqs_)>>, << >>),
       Comment("Frequencies: - GHz", << >>,
               <<FmtF(GHz(freqs_[1]), 3), FmtF(GHz(freqs_[Len(freqs_)]), 3)>>),
       Comment("Format: magnitude-angle (dB, degrees)", << >>, << >>),
       Option("GHz S MA R", <<Z0>>) >>
    \o PortRows(S_, freqs_, 1)

\* ---- extract_rx_sparameters.write_touchstone_s16p: S_matrix[i, tx, rx];
\* a frequency below 1 MHz is skipped
RECURSIVE RxRows(_, _, _)
RxRows(S_, freqs_, fi) ==
    IF fi > Len(freqs_) THEN << >>
    ELSE (IF freqs_[fi][1] * 1000000 < freqs_[fi][2]
          THEN << >>
          ELSE <<Data(<<FmtF(GHz(freqs_[fi]), 6)>>
                      \o Pairs(RowMajor(S_, fi), 1, N_PORTS * N_PORTS,
                               <<"e", 6>>, <<"f", 6>>))>>)
            \o RxRows(S_, freqs_, fi + 1)

write_touchstone_s16p(S_, freqs_) ==
    << Comment("Touchstone file generated from gprMax receiver data", << >>, << >>),
       Comment("Multi-static brain imaging with monopole antennas", <<N_PORTS>>, << >>),
       Comment("Frequency range: - GHz", << >>,
               <<FmtF(GHz(freqs_[1]), 3), FmtF(GHz(freqs_[Len(freqs_)]), 3)>>),
       Comment("Number of frequency points:", <<Len(freqs_)>>, << >>),
       Comment("Reference impedance: Ohm", <<Z0>>, << >>),
       Comment("", << >>, << >>),
       Option("GHz S MA R", <<Z0>>) >>
    \o RxRows(S_, freqs_, 1)

\* ---- generate_s16p.save_s16p_file: frequencies in Hz
RECURSIVE GenRows(_, _, _)
GenRows(S_, freqs_, fi) ==
    IF fi > Len(freqs_) THEN << >>
    ELSE <<Data(<<FmtE(Hz(freqs_[fi]), 6)>>
                \o Pairs(RowMajor(S_, fi), 1, N_PORTS * N_PORTS, <<"e", 6>>, <<"e", 6>>))>>
            \o GenRows(S_, freqs_, fi + 1)

gen_save_s16p_file(S_, freqs_) ==
    << Comment("16-port S-parameter data", << >>, << >>),
       Comment("Generated from gprMax brain hemorrhage simulation", << >>, << >>),
       Comment("Multi-static measurement: 16 source positions x 16 receivers", << >>, << >>),
       Comment("Geometry: Circular array around head model with hemorrhagic lesion",
               << >>, << >>),
       Comment("Frequency points:", <<Len(freqs_)>>, << >>),
       Comment("Frequency range: - GHz", << >>,
               <<FmtF(GHz(freqs_[1]), 3), FmtF(GHz(freqs_[Len(freqs_)]), 3)>>),
       Comment("", << >>, << >>),
       Option("HZ S MA R", <<Z0>>),
       Comment("", << >>, << >>) >>
    \o GenRows(S_, freqs_, 1)

\* the writer of each script
Writer(S_, freqs_, sid) ==
    CASE prog = "wave" -> write_s16p(S_, freqs_, sid)
      [] prog = "port" -> port_save_s16p_file(S_, freqs_)
      [] prog = "rx"   -> write_touchstone_s16p(S_, freqs_)
      [] prog = "gen"  -> gen_save_s16p_file(S_, freqs_)

\* ================================================= validate_s16p.parse_s16p
\* values: the whitespace-separated words of every line that is neither empty
\* nor a '!' or '#' line
RECURSIVE Values(_, _)
Values(file, k) ==
    IF k > Len(file) THEN << >>
    ELSE (IF file[k].c \in {"!", "#"} THEN << >> ELSE file[k].toks)
            \o Values(file, k + 1)

\* n_ports = 16 of the parser: the port count of the scripts
vals_per_freq == 1 + N_PORTS * N_PORTS * 2

parse_s16p_transposed(file) ==
    LET values == Values(file, 1)
        n_freq == Len(values) \div vals_per_freq
        at(i, j, fi) == (fi - 1) * vals_per_freq + 1 + 2 * ((j - 1) * N_PORTS + (i - 1))
    IN  << [fi \in 1 .. n_freq |-> float(values[(fi - 1) * vals_per_freq + 1])],
           [i \in Ports |-> [j \in Ports |-> [fi \in 1 .. n_freq |->
                [mag |-> float(values[at(i, j, fi) + 1]),
                 ang |-> float(values[at(i, j, fi) + 2])]]]] >>

\* <<freqs, S>>; an entry mag * exp(1j * radians(ang)) is kept as [mag, ang]
parse_s16p(file) ==
    LET values == Values(file, 1)
        n_freq == Len(values) \div vals_per_freq
        at(i, j, fi) == (fi - 1) * vals_per_freq + 1 + 2 * ((i - 1) * N_PORTS + (j - 1))
    IN  << [fi \in 1 .. n_freq |-> float(values[(fi - 1) * vals_per_freq + 1])],
           [i \in Ports |-> [j \in Ports |-> [fi \in 1 .. n_freq |->
                [mag |-> float(values[at(i, j, fi) + 1]),
                 ang |-> float(values[at(i, j, fi) + 2])]]]] >>

\* ==================================================== validate_s16p.validate
\* Arithmetic on parsed numbers, digit by digit.  (Floating-point rounding of
\* the sums and products is left out: every number here is a short decimal.)
Zeros(k) == IF k <= 0 THEN << >> ELSE [n \in 1 .. k |-> 0]

\* the digits of a and b at their common scale, with equal lengths
Aligned(a, b) ==
    LET s  == Min(a.scale, b.scale)
        da == a.digits \o Zeros(a.scale - s)
        db == b.digits \o Zeros(b.scale - s)
        L  == IF Len(da) > Len(db) THEN Len(da) ELSE Len(db)
    IN  [a |-> Zeros(L - Len(da)) \o da, b |-> Zeros(L - Len(db)) \o db, scale |-> s]

RECURSIVE SeqLess(_, _)
SeqLess(x, y) ==
    IF x = << >> THEN FALSE
    ELSE IF x[1] # y[1] THEN x[1] < y[1]
    ELSE SeqLess(Tail(x), Tail(y))

\* |a| < |b|
DecLess(a, b) == LET al == Aligned(a, b) IN SeqLess(al.a, al.b)

RECURSIVE SubB(_, _, _, _)
SubB(x, y, k, b) ==
    IF k = 0 THEN << >>
    ELSE LET d == x[k] - y[k] - b
         IN  Append(SubB(x, y, k - 1, IF d < 0 THEN 1 ELSE 0),
                    IF d < 0 THEN d + 10 ELSE d)

RECURSIVE AddC(_, _, _, _)
AddC(x, y, k, c) ==
    IF k = 0 THEN (IF c = 1 THEN <<1>> ELSE << >>)
    ELSE LET d == x[k] + y[k] + c
         IN  Append(AddC(x, y, k - 1, d \div 10), d % 10)

\* | |a| - |b| |  and  |a| + |b|
DecAbsDiff(a, b) ==
    LET al == Aligned(a, b)
    IN  float(Tok(FALSE, IF SeqLess(al.a, al.b)
                         THEN SubB(al.b, al.a, Len(al.a), 0)
                         ELSE SubB(al.a, al.b, Len(al.a), 0), al.scale))

DecAdd(a, b) ==
    LET al == Aligned(a, b)
    IN  float(Tok(FALSE, AddC(al.a, al.b, Len(al.a), 0), al.scale))

\* format(x, ".Pf") of a parsed number
DecFmtF(t, P) ==
    LET cut  == IF t.scale < -P THEN -P - t.scale ELSE 0
        ds   == Zeros(cut + 1 - Len(t.digits)) \o t.digits \o Zeros(t.scale + P)
        keep == SubSeq(ds, 1, Len(ds) - cut)
        drop == SubSeq(ds, Len(ds) - cut + 1, Len(ds))
        half == <<5>> \o Zeros(cut - 1)
        up   == cut > 0 /\ (SeqLess(half, drop)
                            \/ (drop = half /\ keep[Len(keep)] % 2 = 1))
        r    == IF up THEN Incr(keep) ELSE keep
    IN  Tok(t.neg, Zeros(P + 1 - Len(r)) \o r, -P)

\* the entries [mag, ang] of a parsed matrix in one row, and the same of its
\* transpose
Entries(S_, n_freq) ==
    [k \in 1 .. N_PORTS * N_PORTS * n_freq |->
        S_[((k - 1) \div (N_PORTS * n_freq)) + 1]
          [(((k - 1) \div n_freq) % N_PORTS) + 1]
          [((k - 1) % n_freq) + 1]]

Transposed(S_, n_freq) ==
    [k \in 1 .. N_PORTS * N_PORTS * n_freq |->
        S_[(((k - 1) \div n_freq) % N_PORTS) + 1]
          [((k - 1) \div (N_PORTS * n_freq)) + 1]
          [((k - 1) % n_freq) + 1]]

DecZero == Tok(FALSE, << >>, 0)

\* np.max of a row of numbers (nan as soon as one of them is not finite)
RECURSIVE np_max(_, _)
np_max(x, k) ==
    IF k > Len(x) THEN DecZero
    ELSE LET m == np_max(x, k + 1)
         IN  IF x[k].kind # "dec" \/ m.kind # "dec" THEN TokOf("nan", "", CZero, 0)
             ELSE IF DecLess(m, x[k]) THEN x[k] ELSE m

\* np.abs(a - b) of two parsed entries that lie on one line through 0: the
\* same angle, opposite angles, or one of them 0
AbsOfDifference(a, b) ==
    CASE a.mag.kind # "dec" \/ b.mag.kind # "dec" -> TokOf("nan", "", CZero, 0)
      [] OTHER ->
        CASE a.mag.digits = << >> -> b.mag
          [] b.mag.digits = << >> -> a.mag
          [] a.ang = b.ang -> DecAbsDiff(a.mag, b.mag)
          [] DecAbsDiff(a.ang, b.ang) = Tok(FALSE, <<1, 8>>, 1) -> DecAdd(a.mag, b.mag)

\* max_mag = np.max(np.abs(S))
max_mag(S_, n_freq) ==
    np_max([k \in 1 .. N_PORTS * N_PORTS * n_freq |-> Entries(S_, n_freq)[k].mag], 1)

max_of_entries(S_, n_freq) ==
    np_max([k \in 1 .. N_PORTS * N_PORTS * n_freq |-> Entries(S_, n_freq)[k].mag], 1)

\* max_recip_err = np.max(np.abs(S - np.transpose(S, (1, 0, 2))))
max_recip_err(S_, n_freq) ==
    np_max([k \in 1 .. N_PORTS * N_PORTS * n_freq |->
                AbsOfDifference(Entries(S_, n_freq)[k], Transposed(S_, n_freq)[k])], 1)

\* x <= lim and x < lim as numpy decides them (False for nan)
Leq(x, lim)  == x.kind = "dec" /\ ~DecLess(lim, x)
Less(x, lim) == x.kind = "dec" /\ DecLess(x, lim)

\* the limits 1.05 of check 2 and 0.05 of check 5
PassiveLimit    == Tok(FALSE, <<1, 0, 5>>, -2)
ReciprocalLimit == Tok(FALSE, <<5>>, -2)

\* fi_1ghz = np.argmin(np.abs(freqs - 1.0)), counted from 1
RECURSIVE ArgMin(_, _)
ArgMin(x, k) ==
    IF k = Len(x) THEN k
    ELSE LET m == ArgMin(x, k + 1)
         IN  IF DecLess(x[m], x[k]) THEN m ELSE k

fi_1ghz(freqs_) ==
    ArgMin([k \in 1 .. Len(freqs_) |-> DecAbsDiff(freqs_[k], Tok(FALSE, <<1>>, 0))], 1)

passivity_always_ok(S_, n_freq) ==
    <<Line("Max |Sij| (<= 1, passive system OK)", DecFmtF(max_mag(S_, n_freq), 4), 0)>>

\* check 2
passivity_check(S_, n_freq) ==
    IF Leq(max_mag(S_, n_freq), PassiveLimit)
    THEN <<Line("Max |Sij| (<= 1, passive system OK)", DecFmtF(max_mag(S_, n_freq), 4), 0)>>
    ELSE <<Line("WARNING: Max |Sij| (> 1, check simulation)",
                DecFmtF(max_mag(S_, n_freq), 4), 0)>>

\* check 5 (the average error, printed next to the maximum, is not carried)
reciprocity_check(S_, n_freq) ==
    IF Less(max_recip_err(S_, n_freq), ReciprocalLimit)
    THEN <<Line("Reciprocity OK (max |Sij - Sji|)", DecFmtF(max_recip_err(S_, n_freq), 4), 0)>>
    ELSE <<Line("Reciprocity error: max |Sij - Sji|, avg",
                DecFmtF(max_recip_err(S_, n_freq), 4), 0),
           Line("(Some asymmetry expected due to independent simulations)", 0, 0)>>

\* the lines validate prints after the basic info, for <<freqs, S>> parsed.
\* In the lines of checks 3 and 4 `run` is the frequency point, counted from 1
\* (the values in dB are not carried).
validate(p) ==
    LET freqs_ == p[1]
        S_     == p[2]
        n_freq == Len(freqs_)
        finite == \A k \in 1 .. N_PORTS * N_PORTS * n_freq :
                      /\ Entries(S_, n_freq)[k].mag.kind = "dec"
                      /\ Entries(S_, n_freq)[k].ang.kind = "dec"
        sample == <<0, n_freq \div 4, n_freq \div 2, (3 * n_freq) \div 4, n_freq - 1>>
    IN  <<Line(IF finite THEN "All values are finite (no NaN/Inf)"
                         ELSE "WARNING: NaN/Inf values found", 0, 0)>>
        \o passivity_check(S_, n_freq)
        \o [i \in Ports |-> Line("Reflection |Sii| at 1 GHz", i, fi_1ghz(freqs_))]
        \o [k \in 1 .. 5 |-> Line("Sample transmission |S21|", 21, sample[k] + 1)]
        \o reciprocity_check(S_, n_freq)

\* ================================ a matrix written, parsed back and validated
\* The matrices handed to the writers: every entry on an axis of the complex
\* plane, so that np.abs and np.angle are exact; magnitude below 1 and
\* different from place to place (the same at [i][j] and [j][i] when sym),
\* except for one entry at place p whose magnitude is v.
OnAxis(a, n, d) ==
    CASE a = 0 -> Q(n, 0, d)
      [] a = 1 -> Q(0, n, d)
      [] a = 2 -> Q(-n, 0, d)
      [] a = 3 -> Q(0, -n, d)

FileValues == { <<0, 1>>, <<1, 1>>, <<1, 3>>, <<21, 20>>, <<6, 5>> }

FileMatrix(sym, p, v, n_freq) ==
    [i \in Ports |-> [j \in Ports |-> [f \in 1 .. n_freq |->
        IF <<i, j, f>> = p
        THEN OnAxis((i + j + f) % 4, v[1], v[2])
        ELSE OnAxis((i + j + f) % 4,
                    IF sym THEN i + j - 1 ELSE N_PORTS * (i - 1) + j,
                    N_PORTS * N_PORTS + f)]]]

\* the frequency axis a builder hands to its writer
FileAxis(d) ==
    IF prog = "wave"
    THEN Masked(rfftfreq(Iterations, d), FreqMask(Iterations, d))
    ELSE rfftfreq(Iterations, d)

InitFile ==
    /\ prog \in Progs
    /\ \E d \in Dts : freqs = FileAxis(d)
    /\ \E sym \in BOOLEAN, i, j \in Ports, f \in 1 .. Len(freqs), v \in FileValues :
          S = FileMatrix(sym, <<i, j, f>>, v, Len(freqs))
    /\ pc = "file"
    /\ exists = {} /\ runs = << >> /\ tx = 1
    /\ freq_mask = None /\ Ez_incident = None
    /\ log = << >> /\ rd = NoRead
    /\ inputs = SameAxis
    /\ files = << >> /\ parsed = None
    /\ result = "none" /\ scenario_id = 1
    /\ NoDriver

\* the script's writer is called (a second call writes the same path again)
FileWrite ==
    /\ pc = "file" /\ Len(files) < 2
    /\ files' = Append(files, Writer(S, freqs, scenario_id))
    /\ UNCHANGED <<prog, exists, runs, pc, tx, S, freqs, freq_mask, Ez_incident,
                   log, rd, inputs, parsed, result, scenario_id>>
    /\ UNCHANGED driver

\* parse_s16p is called on the file
FileParse ==
    /\ pc = "file" /\ files # << >> /\ parsed = None
    /\ parsed' = parse_s16p(files[Len(files)])
    /\ UNCHANGED <<prog, exists, runs, pc, tx, S, freqs, freq_mask, Ez_incident,
                   log, rd, inputs, files, result, scenario_id>>
    /\ UNCHANGED driver

\* validate is called on the file: it parses it and prints its findings; with
\* no frequency point in the file, freqs[0] raises after the first lines
FileValidate ==
    /\ pc = "file" /\ files # << >> /\ log = << >>
    /\ LET p == parse_s16p(files[Len(files)])
       IN  /\ parsed' = p
           /\ IF Len(p[1]) = 0
                 THEN /\ log' = <<Line("Frequency points", 0, 0)>>
                      /\ pc' = "raised"
                 ELSE /\ log' = <<Line("Frequency points", Len(p[1]), 0)>> \o validate(p)
                      /\ pc' = pc
    /\ UNCHANGED <<prog, exists, runs, tx, S, freqs, freq_mask, Ez_incident,
                   rd, inputs, files, result, scenario_id>>
    /\ UNCHANGED driver

NextFile == FileWrite \/ FileParse \/ FileValidate

SpecFile == InitFile /\ [][NextFile]_vars

\* ================================================ files found on the disk
\* validate takes any path: a file of one of the writers, or such a file cut
\* short after some word of its last line.  The matrices are those above and
\* the ones that are 0 everywhere except for one entry of magnitude v.
DiskValues == { <<1, 25>>, <<1, 20>>, <<3, 50>> }

SparseMatrix(p, v, n_freq) ==
    [i \in Ports |-> [j \in Ports |-> [f \in 1 .. n_freq |->
        IF <<i, j, f>> = p THEN OnAxis((i + j + f) % 4, v[1], v[2]) ELSE CZero]]]

InitDisk ==
    /\ prog \in Progs
    /\ \E d \in Dts : freqs = FileAxis(d)
    /\ \/ \E sym \in BOOLEAN, v \in FileValues :
              S = FileMatrix(sym, <<1, 2, 1>>, v, Len(freqs))
       \/ \E i, j \in Ports, v \in DiskValues :
              S = SparseMatrix(<<i, j, 1>>, v, Len(freqs))
    /\ pc = "file"
    /\ exists = {} /\ runs = << >> /\ tx = 1
    /\ freq_mask = None /\ Ez_incident = None
    /\ log = << >> /\ rd = NoRead
    /\ inputs = SameAxis
    /\ files = << >> /\ parsed = None
    /\ result = "none" /\ scenario_id = 1
    /\ NoDriver

\* the file loses the last k words of its last line, k up to MaxCut
FileCut ==
    /\ pc = "file" /\ files # << >> /\ parsed = None /\ log = << >>
    /\ LET file == files[Len(files)]
           last == file[Len(file)]
       IN  /\ last.c = ""
           /\ Len(Values(file, 1)) % vals_per_freq = 0
           /\ \E k \in 1 .. Min(MaxCut, Len(last.toks) - 1) :
                 files' = [files EXCEPT ![Len(files)][Len(file)].toks =
                                            SubSeq(@, 1, Len(@) - k)]
    /\ UNCHANGED <<prog, exists, runs, pc, tx, S, freqs, freq_mask, Ez_incident,
                   log, rd, inputs, parsed, result, scenario_id>>
    /\ UNCHANGED driver

NextDisk == FileWrite \/ FileCut \/ FileParse \/ FileValidate

SpecDisk == InitDisk /\ [][NextDisk]_vars

\* ==================================== extract_sparameters.process_scenario
\* delete .out files after successful extraction
DELETE_OUT == TRUE

InitScenario ==
    /\ prog = "wave"
    /\ exists \in SUBSET Ports
    /\ pc = "scenario"
    /\ runs = << >> /\ tx = 1
    /\ S = None /\ freqs = None /\ freq_mask = None /\ Ez_incident = None
    /\ log = << >> /\ rd = NoRead
    /\ inputs = SameAxis
    /\ files = << >> /\ parsed = None
    /\ result = "none" /\ scenario_id = 1
    /\ NoDriver

\* some of the N .out files are missing: SKIP, return False
ScenarioSkip ==
    /\ pc = "scenario" /\ exists # Ports
    /\ log' = Append(log, Line("SKIP: .out files missing (simulations not done yet?)",
                               Cardinality(Ports \ exists), 0))
    /\ result' = "False"
    /\ pc' = "returned"
    /\ UNCHANGED <<prog, exists, runs, tx, S, freqs, freq_mask, Ez_incident, rd,
                   inputs, files, parsed, scenario_id>>
    /\ UNCHANGED driver

\* all N files are there: compute_s_matrix is called
ScenarioCompute ==
    /\ pc = "scenario" /\ exists = Ports
    /\ pc' = "loop"
    /\ UNCHANGED <<prog, exists, runs, tx, S, freqs, freq_mask, Ez_incident, log, rd,
                   inputs, files, parsed, result, scenario_id>>
    /\ UNCHANGED driver

ScenarioErrorRaised ==
    /\ pc = "raised"
    /\ pc' = "aborted"
    /\ UNCHANGED <<prog, exists, runs, tx, S, freqs, freq_mask, Ez_incident, log, rd,
                   inputs, files, parsed, result, scenario_id>>
    /\ UNCHANGED driver

\* compute_s_matrix was left by an exception: return False
ScenarioError ==
    /\ pc = "raised"
    /\ log' = Append(log, Line("ERROR computing S-matrix", 0, 0))
    /\ result' = "False"
    /\ pc' = "returned"
    /\ UNCHANGED <<prog, exists, runs, tx, S, freqs, freq_mask, Ez_incident, rd,
                   inputs, files, parsed, scenario_id>>
    /\ UNCHANGED driver

\* what is left of the .out files after `for f in out_files: os.remove(f)`
Removed == IF DELETE_OUT THEN {} ELSE exists

ScenarioWriteRemovingFirst ==
    /\ pc = "done"
    /\ pc' = "returned"
    /\ IF S = None \/ freqs = None
          THEN /\ log' = Append(log, Line("ERROR: no data extracted", 0, 0))
               /\ result' = "False"
               /\ UNCHANGED <<exists, files>>
          ELSE /\ exists' = Removed
               /\ \/ /\ log' = Append(log, Line("ERROR writing .s16p", 0, 0))
                     /\ result' = "False"
                     /\ UNCHANGED files
                  \/ /\ files' = Append(files, write_s16p(S, freqs, scenario_id))
                     /\ log' = IF DELETE_OUT
                               THEN Append(log, Line("Deleted .out files", N_PORTS, 0))
                               ELSE log
                     /\ result' = "True"
    /\ UNCHANGED <<prog, runs, tx, S, freqs, freq_mask, Ez_incident, rd,
                   inputs, parsed, scenario_id>>
    /\ UNCHANGED driver

\* compute_s_matrix returned: without data return False; else write the
\* .s16p file (return False when open or write raises: the directory is not
\* there, the disk is full), delete the .out files and return True
ScenarioWrite ==
    /\ pc = "done"
    /\ pc' = "returned"
    /\ IF S = None \/ freqs = None
          THEN /\ log' = Append(log, Line("ERROR: no data extracted", 0, 0))
               /\ result' = "False"
               /\ UNCHANGED <<exists, files>>
          ELSE \/ /\ log' = Append(log, Line("ERROR writing .s16p", 0, 0))
                  /\ result' = "False"
                  /\ UNCHANGED <<exists, files>>
               \/ /\ files' = Append(files, write_s16p(S, freqs, scenario_id))
                  /\ exists' = Removed
                  /\ log' = IF DELETE_OUT
                            THEN Append(log, Line("Deleted .out files", N_PORTS, 0))
                            ELSE log
                  /\ result' = "True"
    /\ UNCHANGED <<prog, runs, tx, S, freqs, freq_mask, Ez_incident, rd,
                   inputs, parsed, scenario_id>>
    /\ UNCHANGED driver

\* (with all N files there, the missing-file branch of compute_s_matrix is
\* never taken)
NextScenario ==
    \/ ScenarioSkip \/ ScenarioCompute
    \/ WaveRun \/ WaveReturn
    \/ ScenarioError \/ ScenarioWrite

SpecScenario == InitScenario /\ [][NextScenario]_vars

\* ================================================ extract_sparameters.main
\* the command lines argparse lets through: exactly one of --scenario N,
\* --all, --range START END (scenario numbers up to LastScenario)
CommandLines ==
    {[NoArgs EXCEPT !.scenario = <<n>>] : n \in 0 .. LastScenario}
    \cup {[NoArgs EXCEPT !.all = TRUE]}
    \cup {[NoArgs EXCEPT !.range = <<a, b>>] : a, b \in 0 .. LastScenario}

\* range(a, b) as a list
range(a, b) == [k \in 1 .. (IF b > a THEN b - a ELSE 0) |-> a + k - 1]

\* the truth value of args.scenario: None (option not given) and 0 are false
Truthy(x) == x # << >> /\ x[1] # 0

\* the result files of the scenarios main goes through: all of one time step
\* and iteration count, every port there, some without their 'tls' group
MainInputs == [dts |-> Dts, its |-> {Iterations}, ks |-> {1}, ms |-> {0}]

InitMain ==
    /\ prog = "wave"
    /\ args \in CommandLines
    /\ ids = << >> /\ pos = 0
    /\ ok = 0 /\ fail = 0 /\ skip = 0
    /\ calls = << >>
    /\ pc = "main"
    /\ exists = {} /\ runs = << >> /\ tx = 1
    /\ S = None /\ freqs = None /\ freq_mask = None /\ Ez_incident = None
    /\ log = << >> /\ rd = NoRead
    /\ inputs = MainInputs
    /\ files = << >> /\ parsed = None
    /\ result = "none" /\ scenario_id = 0

\* if args.scenario: ... elif args.all: ... else: range(args.range[0], ...);
\* args.range is None when --range was not given: TypeError
MainIds ==
    /\ pc = "main"
    /\ IF Truthy(args.scenario)
          THEN ids' = <<args.scenario[1]>> /\ pc' = "for"
          ELSE IF args.all
          THEN ids' = range(1, LastScenario + 1) /\ pc' = "for"
          ELSE IF args.range = << >>
          THEN ids' = ids /\ pc' = "aborted"
          ELSE ids' = range(args.range[1], args.range[2] + 1) /\ pc' = "for"
    /\ UNCHANGED <<prog, exists, runs, tx, S, freqs, freq_mask, Ez_incident, log, rd,
                   inputs, files, parsed, result, scenario_id,
                   args, pos, ok, fail, skip, calls>>

\* for sid in ids: result = process_scenario(sid) -- the call, which finds
\* the .out files of that scenario on the disk (the lines printed so far are
\* not carried on)
MainCall ==
    /\ pc = "for" /\ pos < Len(ids)
    /\ pos' = pos + 1
    /\ scenario_id' = ids[pos + 1]
    /\ calls' = Append(calls, ids[pos + 1])
    /\ exists' \in SUBSET Ports
    /\ runs' = << >> /\ tx' = 1
    /\ S' = None /\ freqs' = None /\ freq_mask' = None
    /\ log' = << >> /\ rd' = NoRead
    /\ result' = "none"
    /\ pc' = "scenario"
    /\ UNCHANGED <<prog, Ez_incident, inputs, files, parsed, args, ids, ok, fail, skip>>

\* process_scenario returned: if result is True: ok += 1, elif result is
\* False: fail += 1, else: skip += 1
MainCount ==
    /\ pc = "returned"
    /\ pc' = "for"
    /\ ok'   = IF result = "True" THEN ok + 1 ELSE ok
    /\ fail' = IF result = "False" THEN fail + 1 ELSE fail
    /\ skip' = IF result \notin {"True", "False"} THEN skip + 1 ELSE skip
    /\ UNCHANGED <<prog, exists, runs, tx, S, freqs, freq_mask, Ez_incident, log, rd,
                   inputs, files, parsed, result, scenario_id,
                   args, ids, pos, calls>>

\* the loop is over: "Done: {ok} succeeded, {fail} failed, {skip} skipped"
MainSummary ==
    /\ pc = "for" /\ pos = Len(ids)
    /\ log' = <<Line("succeeded", ok, 0), Line("failed", fail, 0),
                Line("skipped", skip, 0)>>
    /\ pc' = "exit"
    /\ UNCHANGED <<prog, exists, runs, tx, S, freqs, freq_mask, Ez_incident, rd,
                   inputs, files, parsed, result, scenario_id,
                   args, ids, pos, ok, fail, skip, calls>>

NextMain ==
    \/ MainIds \/ MainCall
    \/ ScenarioSkip \/ ScenarioCompute
    \/ WaveRun \/ WaveReturn
    \/ ScenarioError \/ ScenarioWrite
    \/ MainCount \/ MainSummary

SpecMain == InitMain /\ [][NextMain]_vars

\* ================================ generate_all_sij.py: the plotting parser
\* vals of one line: the numbers after the first, padded with 0.0 up to
\* 16*16*2 of them (the port count of the scripts)
PlotVals(parts) ==
    [k \in 1 .. 2 * N_PORTS * N_PORTS |->
        IF k + 1 <= Len(parts) THEN float(parts[k + 1]) ELSE DecZero]

\* the lines that are neither empty nor '!' nor '#' lines, in order
RECURSIVE PlotLines(_, _)
PlotLines(file, k) ==
    IF k > Len(file) THEN << >>
    ELSE (IF file[k].c \in {"!", "#"} \/ file[k].toks = << >> THEN << >> ELSE <<file[k]>>)
            \o PlotLines(file, k + 1)

\* <<freqs, S>>: one frequency point per line, its first number the
\* frequency, S[i][j] the list of the magnitudes vals[(i*16 + j) * 2] (kept
\* as read; the script stores 20*log10 of them)
plot_parse(file) ==
    LET lines == PlotLines(file, 1)
    IN  << [n \in 1 .. Len(lines) |-> float(lines[n].toks[1])],
           [i \in Ports |-> [j \in Ports |-> [n \in 1 .. Len(lines) |->
                PlotVals(lines[n].toks)[((i - 1) * N_PORTS + (j - 1)) * 2 + 1]]]] >>

\* a file of write_s16p is read by the plotting script
InitPlot == InitFile /\ prog = "wave"

PlotParse ==
    /\ pc = "file" /\ files # << >> /\ parsed = None
    /\ parsed' = plot_parse(files[Len(files)])
    /\ UNCHANGED <<prog, exists, runs, pc, tx, S, freqs, freq_mask, Ez_incident,
                   log, rd, inputs, files, result, scenario_id>>
    /\ UNCHANGED driver

NextPlot == FileWrite \/ PlotParse

SpecPlot == InitPlot /\ [][NextPlot]_vars

\* ====================================================== input deck generators
\* generate_dataset.write_scenario, generate_inputs and
\* generate_realistic_brain_inputs write one input deck per transmit antenna.
\* Of a deck the model keeps the header, the waveforms, the lesion and the
\* antennas; a line is its command ("" for a ## comment), the identifier it
\* names, and its numbers.
DeckLine(cmd, id, ints) == [cmd |-> cmd, id |-> id, ints |-> ints]

\* #waveform: gaussian <amplitude> 1e9 <id>
Waveform(amplitude, id) == DeckLine("waveform", id, <<amplitude>>)

\* the #transmission_line command the deck's python block of antenna k
\* prints: at the feed of antenna k when {x} {y} {gp_z2} are replaced by the
\* values of antenna_positions[k - 1]; 0 when the block prints the braces
TransmissionLine(k, id) == DeckLine("transmission_line", id, <<k>>)

\* LESION_SIZES, in mm
LESION_SIZES == {5, 10, 15, 20, 25}

\* two of the positions of generate_positions, in mm
Positions == { <<-17, 17, 27>>, <<17, -17, -27>> }

Healthy == [has_lesion |-> FALSE, lesion_size |-> 0, lesion_pos |-> <<0, 0, 0>>]

\* for ant_idx in range(n_antennas): ... of generate_dataset.write_scenario
RECURSIVE DatasetAntennas(_, _)
DatasetAntennas(src_num, ant_num) ==
    IF ant_num > N_PORTS THEN << >>
    ELSE << DeckLine("", "Antenna", <<ant_num>>),
            TransmissionLine(ant_num, IF ant_num = src_num THEN "tx_pulse" ELSE "rx_null") >>
            \o DatasetAntennas(src_num, ant_num + 1)

DatasetDeck(sid, lesion, src_num) ==
    << DeckLine("", "Scenario - Transmit", <<sid, src_num>>),
       IF lesion.has_lesion
       THEN DeckLine("", "Hemorrhage: mm at", <<lesion.lesion_size>> \o lesion.lesion_pos)
       ELSE DeckLine("", "Healthy baseline", << >>),
       DeckLine("title", "scenario_tx", <<sid, src_num>>) >>
    \o (IF lesion.has_lesion
        THEN <<DeckLine("sphere", "blood", <<lesion.lesion_size>> \o lesion.lesion_pos)>>
        ELSE << >>)
    \o << Waveform(1, "tx_pulse"), Waveform(0, "rx_null") >>
    \o DatasetAntennas(src_num, 1)

\* the antenna loop of generate_inputs
RECURSIVE InputsAntennas(_, _)
InputsAntennas(src_num, ant_num) ==
    IF ant_num > N_PORTS THEN << >>
    ELSE << DeckLine("", "Antenna", <<ant_num>>),
            TransmissionLine(ant_num, IF ant_num = src_num THEN "tx_pulse" ELSE "rx_null") >>
            \o InputsAntennas(src_num, ant_num + 1)

InputsDeck(src_num) ==
    << DeckLine("", "Transmit antenna", <<src_num>>),
       DeckLine("title", "brain_tx", <<src_num>>),
       Waveform(1, "tx_pulse"), Waveform(0, "rx_null"),
       DeckLine("sphere", "blood", <<15>>), DeckLine("sphere", "blood", <<10>>) >>
    \o InputsAntennas(src_num, 1)

\* the antenna loop of generate_realistic_brain_inputs: the print lines are
\* written with f"...{{{{x}}}}...", which leaves {{x}} in the deck, and the
\* deck's own f-string prints the text {x}
RECURSIVE RealisticAntennas(_, _)
RealisticAntennas(src_num, ant_num) ==
    IF ant_num > N_PORTS THEN << >>
    ELSE << DeckLine("", "Antenna", <<ant_num>>),
            TransmissionLine(0, IF ant_num = src_num THEN "tx_pulse" ELSE "rx_termination") >>
            \o RealisticAntennas(src_num, ant_num + 1)

RealisticDeck(src_num) ==
    << DeckLine("", "Transmit antenna", <<src_num>>),
       DeckLine("title", "brain_realistic_tx", <<src_num>>),
       Waveform(1, "tx_pulse"), Waveform(1, "rx_termination"),
       DeckLine("sphere", "blood", <<15>>), DeckLine("sphere", "blood", <<10>>) >>
    \o RealisticAntennas(src_num, 1)

Generators == {"dataset", "inputs", "realistic"}

\* a generator at the head of its loop over src_idx (tx is src_num); args
\* holds has_lesion, lesion_size and lesion_pos of write_scenario
InitDeck ==
    /\ prog \in Generators
    /\ IF prog = "dataset"
          THEN /\ scenario_id \in 1 .. LastScenario
               /\ args \in {Healthy}
                      \cup {[has_lesion |-> TRUE, lesion_size |-> z, lesion_pos |-> p] :
                                z \in LESION_SIZES, p \in Positions}
          ELSE /\ scenario_id = 0
               /\ args = Healthy
    /\ pc = "deck" /\ tx = 1
    /\ files = << >>
    /\ exists = {} /\ runs = << >>
    /\ S = None /\ freqs = None /\ freq_mask = None /\ Ez_incident = None
    /\ log = << >> /\ rd = NoRead
    /\ inputs = SameAxis
    /\ parsed = None /\ result = "none"
    /\ ids = << >> /\ pos = 0
    /\ ok = 0 /\ fail = 0 /\ skip = 0
    /\ calls = << >>

\* one pass of `for src_idx in range(n_antennas)`: the deck of one antenna
DatasetWrite ==
    /\ prog = "dataset" /\ pc = "deck" /\ tx <= N_PORTS
    /\ files' = Append(files, DatasetDeck(scenario_id, args, tx))
    /\ tx' = tx + 1
    /\ UNCHANGED <<prog, exists, runs, pc, S, freqs, freq_mask, Ez_incident, log, rd,
                   inputs, parsed, result, scenario_id,
                   args, ids, pos, ok, fail, skip, calls>>

InputsWrite ==
    /\ prog = "inputs" /\ pc = "deck" /\ tx <= N_PORTS
    /\ files' = Append(files, InputsDeck(tx))
    /\ tx' = tx + 1
    /\ UNCHANGED <<prog, exists, runs, pc, S, freqs, freq_mask, Ez_incident, log, rd,
                   inputs, parsed, result, scenario_id,
                   args, ids, pos, ok, fail, skip, calls>>

RealisticWrite ==
    /\ prog = "realistic" /\ pc = "deck" /\ tx <= N_PORTS
    /\ files' = Append(files, RealisticDeck(tx))
    /\ tx' = tx + 1
    /\ UNCHANGED <<prog, exists, runs, pc, S, freqs, freq_mask, Ez_incident, log, rd,
                   inputs, parsed, result, scenario_id,
                   args, ids, pos, ok, fail, skip, calls>>

NextDeck == DatasetWrite \/ InputsWrite \/ RealisticWrite

SpecDeck == InitDeck /\ [][NextDeck]_vars

\* ==================================================================== claims
One == [re |-> 1, im |-> 0, den |-> 1]
ZeroColumn == [f \in 1 .. Len(freqs) |-> CZero]

\* the Runs whose pass of compute_s_matrix's loop ran to its end
WaveProcessed == {j \in DOMAIN runs : j < tx}

\* the spectrum of port p in the Run of transmitter j, on the kept bins
KeptV(j, p) == Masked(runs[j].ports[p].V, freq_mask)
KeptI(j, p) == Masked(runs[j].ports[p].I, freq_mask)

\* a line of the log printed in pass `run` that names `n`
Reported(n, run) == \E k \in 1 .. Len(log) : log[k].n = n /\ log[k].run = run

\* C1: in compute_s_matrix the pass that processes the Run of transmit port j
\* writes column j only: every entry of every other column is what it was
\* before the pass (zero when the pass created the matrix), and when the
\* function returns, column j holds the values computed from Run j alone.
C1_ColumnFrame ==
    /\ [][\A i, k \in Ports :
            (prog = "wave" /\ S' # None /\ k # tx)
                => S'[i][k] = IF S = None
                              THEN [f \in 1 .. Len(freqs') |-> CZero]
                              ELSE S[i][k]]_vars
    /\ []((prog = "wave" /\ pc = "done" /\ S # None)
            => \A j \in DOMAIN runs : \A i \in DOMAIN runs[j].ports :
                  S[i][j] = WaveColumn(runs[j].ports, i, j, freq_mask))

\* three Runs were processed and two different columns hold data
C1_Witness ==
    /\ prog = "wave" /\ pc = "done" /\ S # None
    /\ \E j, k \in DOMAIN runs :
          /\ j # k
          /\ \E i \in Ports : S[i][j] # ZeroColumn
          /\ \E i \in Ports : S[i][k] # ZeroColumn

\* C4 as stated: with all N Runs present every entry is b_i / a_j =
\* (V_i - Z0 I_i) / (V_j + Z0 I_j) from ports i and j of Run j; a matched
\* transmit port (V_j = Z0 I_j # 0) gives S[j][j] = 0 and an open one
\* (I_j = 0, V_j # 0) gives S[j][j] = 1.
C4_Original ==
    (prog = "wave" /\ pc = "done" /\ exists = Ports) =>
        \A j \in Ports : \A i \in DOMAIN runs[j].ports : \A f \in 1 .. Len(freqs) :
            LET V_i == KeptV(j, i)[f]
                I_i == KeptI(j, i)[f]
                V_j == KeptV(j, j)[f]
                I_j == KeptI(j, j)[f]
                a   == CAdd(V_j, CScale(Z0, I_j))
                b   == CSub(V_i, CScale(Z0, I_i))
            IN  /\ AbsSq(a) # 0 => S[i][j][f] = CDiv(b, a)
                /\ (i = j /\ V_j = CScale(Z0, I_j) /\ AbsSq(V_j) # 0)
                      => S[j][j][f] = CZero
                /\ (i = j /\ AbsSq(I_j) = 0 /\ AbsSq(V_j) # 0)
                      => S[j][j][f] = One

\* C4 (amended): with all N Runs present every entry at a bin with
\* |a_j| > 1e-30 is b_i / a_j = (V_i - Z0 I_i) / (V_j + Z0 I_j) from ports i
\* and j of Run j, and every entry at a bin with |a_j| <= 1e-30 is 0; a
\* matched transmit port gives S[j][j] = 0, and an open one gives S[j][j] = 1
\* where |a_j| > 1e-30.
C4_WaveRatio ==
    (prog = "wave" /\ pc = "done" /\ exists = Ports) =>
        \A j \in Ports : \A i \in DOMAIN runs[j].ports : \A f \in 1 .. Len(freqs) :
            LET V_i == KeptV(j, i)[f]
                I_i == KeptI(j, i)[f]
                V_j == KeptV(j, j)[f]
                I_j == KeptI(j, j)[f]
                a   == CAdd(V_j, CScale(Z0, I_j))
                b   == CSub(V_i, CScale(Z0, I_i))
            IN  /\ AbsSq(a) > WaveFloorSq => S[i][j][f] = CDiv(b, a)
                /\ AbsSq(a) <= WaveFloorSq => S[i][j][f] = CZero
                /\ (i = j /\ V_j = CScale(Z0, I_j) /\ AbsSq(V_j) # 0)
                      => S[j][j][f] = CZero
                /\ (i = j /\ AbsSq(I_j) = 0 /\ AbsSq(a) > WaveFloorSq)
                      => S[j][j][f] = One

\* all Runs processed; one diagonal entry of a matched port is 0, one of an
\* open port is 1, and an off-diagonal entry is a proper ratio
C4_Witness ==
    /\ prog = "wave" /\ pc = "done" /\ exists = Ports
    /\ \E j \in Ports : \E f \in 1 .. Len(freqs) :
          /\ j \in DOMAIN runs[j].ports
          /\ KeptV(j, j)[f] = CScale(Z0, KeptI(j, j)[f])
          /\ AbsSq(KeptV(j, j)[f]) # 0
          /\ S[j][j][f] = CZero
    /\ \E j \in Ports : \E f \in 1 .. Len(freqs) :
          /\ j \in DOMAIN runs[j].ports
          /\ AbsSq(KeptI(j, j)[f]) = 0
          /\ AbsSq(KeptV(j, j)[f]) > WaveFloorSq
          /\ S[j][j][f] = One
    /\ \E i, j \in Ports : \E f \in 1 .. Len(freqs) :
          i # j /\ S[i][j][f] \notin {CZero, One}

\* C5: in compute_s_matrix, at every bin where the incident wave a_j of Run j
\* is exactly 0 the stored S[i][j][f] is exactly 0 for every receive port i
\* that is present, whatever b_i is; and no entry of the matrix is NaN or Inf.
C5_ZeroIncident ==
    (prog = "wave" /\ S # None) =>
        /\ \A i, j \in Ports : \A f \in 1 .. Len(freqs) : IsFinite(S[i][j][f])
        /\ \A j \in WaveProcessed : \A i \in DOMAIN runs[j].ports :
            \A f \in 1 .. Len(freqs) :
                AbsSq(CAdd(KeptV(j, j)[f], CScale(Z0, KeptI(j, j)[f]))) = 0
                    => S[i][j][f] = CZero

\* a processed Run with a_j = 0 at a kept bin where a receive port has b_i # 0
C5_Witness ==
    /\ prog = "wave" /\ S # None
    /\ \E j \in WaveProcessed : \E i \in DOMAIN runs[j].ports :
        \E f \in 1 .. Len(freqs) :
            /\ i # j
            /\ AbsSq(CAdd(KeptV(j, j)[f], CScale(Z0, KeptI(j, j)[f]))) = 0
            /\ AbsSq(CSub(KeptV(j, i)[f], CScale(Z0, KeptI(j, i)[f]))) # 0
            /\ S[i][j][f] = CZero

\* C8: when the container of a Run lacks a receive port r other than the
\* transmitter, the builder prints a warning that names r, leaves S[r][j] at
\* its zero default, still computes the other entries of column j, and goes on.
C8_MissingRxReported ==
    prog = "wave" =>
        \A j \in WaveProcessed : \A r \in Ports \ DOMAIN runs[j].ports :
            r # j =>
                /\ Reported(r, j)
                /\ S[r][j] = ZeroColumn
                /\ \A i \in DOMAIN runs[j].ports :
                      S[i][j] = WaveColumn(runs[j].ports, i, j, freq_mask)

\* C9: when an otherwise valid Run j lacks its own transmit port, the builder
\* leaves column j at default, warns, and goes on: construction is not aborted.
C9_MissingTxTolerated ==
    prog = "wave" =>
        \A j \in DOMAIN runs :
            (runs[j].group /\ j \notin DOMAIN runs[j].ports) =>
                /\ pc # "raised"
                /\ Reported(j, j)
                /\ \A i \in Ports : S[i][j] = ZeroColumn

\* C10: in compute_s_matrix, when the file of Run j is absent the pass prints a
\* warning that names column j, changes nothing of the matrix and goes on to
\* Run j + 1; so column j stays at its zero default and every Run the loop
\* comes to whose file exists is processed into its own column.
C10_AbsentRun ==
    /\ [][(prog = "wave" /\ pc = "loop" /\ tx <= N_PORTS /\ tx \notin exists)
            => /\ log' = Append(log, Line("WARNING: missing file, skipping column", tx, tx))
               /\ S' = S /\ freqs' = freqs
               /\ pc' = "loop" /\ tx' = tx + 1]_vars
    /\ [](prog = "wave" =>
            \A j \in 1 .. tx - 1 :
                /\ j \notin exists =>
                      /\ Reported(j, j)
                      /\ S # None => \A i \in Ports : S[i][j] = ZeroColumn
                /\ j \in exists =>
                      /\ j \in DOMAIN runs
                      /\ \A i \in DOMAIN runs[j].ports :
                            S[i][j] = WaveColumn(runs[j].ports, i, j, freq_mask))

\* the function returned; a Run was absent, its column is zero, and a later
\* Run filled its own column
C10_Witness ==
    /\ prog = "wave" /\ pc = "done" /\ S # None
    /\ \E j, k \in Ports :
          /\ j < k /\ j \notin exists /\ k \in exists
          /\ Reported(j, j)
          /\ \A i \in Ports : S[i][j] = ZeroColumn
          /\ \E i \in Ports : S[i][k] # ZeroColumn

\* every file is there and every container read so far has its group and all ports
Nominal ==
    /\ exists = Ports
    /\ \A t \in DOMAIN runs : runs[t].group /\ DOMAIN runs[t].ports = Ports

\* what the builder computes for receive port r in the Run of transmitter t
Measured(r, t) ==
    CASE prog = "wave" -> WaveColumn(runs[t].ports, r, t, freq_mask)
      [] prog = "port" -> PortColumn(runs[t].ports, r, t)
      [] prog = "rx"   ->
            IF r = t THEN RxReflection(runs[t].ports[t].V)
            ELSE [f \in 1 .. Len(freqs) |->
                    compute_sparameters_from_efield(runs[t].ports[t].V[f],
                                                    runs[t].ports[r].V[f])]
      [] prog = "gen"  ->
            [f \in 1 .. Len(freqs) |->
                calculate_s_matrix_column(runs[t].ports[r].V[f], runs[t].ports[t].V[f])]

\* C2: in every builder the value measured at receive port r in the Run whose
\* transmitter is port t ends up at S[r][t]: first index receive port, second
\* index transmit port.
C2_ReceiveTransmitIndex ==
    (pc = "done" /\ Nominal) =>
        \A r, t \in Ports : S[r][t] = Measured(r, t)

\* C3: in process_multistatic_data every off-diagonal entry computed in the
\* pass of Run t (receive port r # t, below and above t) is normalized by the
\* spectrum of port t of that same Run.  (The pass stores it at
\* S_matrix[:, tx_idx, rx_num - 1].)
C3_SameRunIncident ==
    (prog = "rx" /\ Nominal) =>
        \A t \in DOMAIN runs : \A r \in Ports \ {t} : \A f \in 1 .. Len(freqs) :
            S[t][r][f] = compute_sparameters_from_efield(runs[t].ports[t].V[f],
                                                         runs[t].ports[r].V[f])

\* C6: in the direct-ratio builders a bin whose denominator (the incident
\* quantity) is below the numerical floor 1e-20 gives an S value of 0, also
\* when the numerator is not 0.  (port stores Run t at S[t][r]; for rx the
\* entries r > t, whose incident spectrum is the Run's own.)
C6_FloorGivesZero ==
    Nominal =>
        \A t \in DOMAIN runs : \A f \in 1 .. NBins(Iterations) :
            LET V_inc == runs[t].ports[t].V[f]
                I_inc == runs[t].ports[t].I[f]
            IN  /\ (prog = "port" /\ AbsSq(V_inc) < Eps20 * Eps20)
                      => \A r \in Ports \ {t} : S[t][r][f] = CZero
                /\ (prog = "port" /\ AbsSq(I_inc) < Eps20 * Eps20)
                      => S[t][t][f] = CZero
                /\ (prog = "rx" /\ HeightNum * HeightNum * AbsSq(V_inc)
                                     < HeightDen * HeightDen * Eps20 * Eps20)
                      => \A r \in Ports : r > t => S[t][r][f] = CZero
                /\ (prog = "gen" /\ AbsSq(V_inc) < Eps20 * Eps20)
                      => \A r \in Ports : S[r][t][f] = CZero

\* C7: read_tl_data, read_transmission_line_ports and read_receiver_data raise
\* when the container lacks the top-level port group; none returns a port map
\* (an empty one) for such a container.
C7_ReadersRaise ==
    (prog \in {"wave", "port", "rx"} /\ rd.file # 0 /\ ~runs[rd.file].group)
        => rd.raised

\* a reader was given a container without its group, and raised
C7_Witness ==
    /\ prog \in {"wave", "port", "rx"}
    /\ rd.file # 0 /\ ~runs[rd.file].group /\ rd.raised /\ rd.ports = << >>

\* the entries a builder keeps for transmit index k, by receive port: column k
\* of compute_s_matrix and generate_s16p, S_matrix[k-1, :] of the two others
TxLine(k) ==
    IF prog \in {"wave", "gen"} THEN [i \in Ports |-> S[i][k]]
                                ELSE [i \in Ports |-> S[k][i]]

\* C11: in the builders that enumerate the result files found, when the Run of
\* transmit port k is missing while Runs of higher ports exist, index k stays
\* at its zero default and every Run is attributed to the port that
\* transmitted in it (its own reflection entry sits at its own index).
C11_MissingRunIndex ==
    (prog \in {"port", "rx", "gen"} /\ pc = "done" /\ S # None) =>
        /\ \A k \in Ports \ exists :
              (\E h \in exists : h > k) => \A i \in Ports : TxLine(k)[i] = ZeroColumn
        /\ \A t \in DOMAIN runs :
              (runs[t].group /\ DOMAIN runs[t].ports = Ports)
                  => TxLine(t)[t] = Measured(t, t)

\* the pass of the loop over the Runs that handles the file of transmit port t
PassOf(t) ==
    IF prog = "wave" THEN t ELSE Cardinality({h \in exists : h <= t})

\* C13: a failure while reading one Run (the reader raising for a container
\* without its port group) is caught and logged inside the builder and does
\* not end the loop: the builder is not left by the exception, the pass has
\* printed a line, and when the builder is over every file found was read.
C13_PerRunFailureCaught ==
    prog \in {"wave", "port", "rx"} =>
        /\ \A t \in DOMAIN runs :
              ~runs[t].group =>
                  /\ pc # "raised" \/ (prog = "rx" /\ freqs = None)
                  /\ \E k \in 1 .. Len(log) : log[k].run = PassOf(t)
        /\ pc \in {"done", "raised"} => DOMAIN runs = exists

\* the Run whose file defined the frequency axis: the first one read whose
\* reader returned
AxisRun ==
    CHOOSE j \in DOMAIN runs :
        runs[j].group /\ \A h \in DOMAIN runs : runs[h].group => j <= h

\* C14: no builder assembles one matrix from Runs of different time steps or
\* iteration counts: nothing of a later Run whose dt or Iterations differs
\* from those of the Run that defined the frequency axis is in the matrix.
C14_OneAxis ==
    (S # None /\ exists = Ports) =>
        \A j \in DOMAIN runs :
            (/\ runs[j].group
             /\ \/ runs[j].dt # runs[AxisRun].dt
                \/ runs[j].Iterations # runs[AxisRun].Iterations)
                => \A i \in Ports : TxLine(j)[i] = ZeroColumn

RECURSIVE IntOf(_)
IntOf(ds) == IF ds = << >> THEN 0 ELSE 10 * IntOf(SubSeq(ds, 1, Len(ds) - 1)) + ds[Len(ds)]

\* the first k digits of a digit string, zeros added at its end where it is shorter
Lead(ds, k) == [n \in 1 .. k |-> IF n <= Len(ds) THEN ds[n] ELSE 0]

\* the parsed number p is the magnitude x = n / d to less than one unit of the
\* seventh significant digit of x (at most 1e-6 of x): p and x start with the
\* same seven digits at the same power of ten, or p is exactly those seven
\* digits plus one unit
MagClose(p, x) ==
    IF x.n = 0 THEN p.kind = "dec" /\ p.digits = << >>
    ELSE LET sc == Scaled(x.n, x.d)
             x7 == LongDiv(sc[1], sc[2], 7).ds
         IN  /\ p.kind = "dec" /\ ~p.neg /\ p.digits # << >>
             /\ p.scale + Len(p.digits) - 1 = Exp10(x.n, x.d) + x.x10
             /\ \/ Lead(p.digits, 7) = x7
                \/ Len(p.digits) <= 7 /\ Lead(p.digits, 7) = Incr(x7)

\* the parsed number p is the angle x = n / d (degrees) to 1e-6 degrees: in
\* millionths of a degree p is the whole part of x or one more
AngClose(p, x) ==
    LET xm == (Abs(x.n) * 1000000) \div x.d
        pm == IntOf(p.digits) * Pow10(p.scale + 6)
    IN  /\ p.kind = "dec" /\ p.scale >= -6
        /\ pm \in {xm, xm + 1}
        /\ pm # 0 => p.neg = (x.n < 0)

\* C16: round trip.  parse_s16p of a file of write_s16p returns as many
\* frequency points as were written and, at every [i][j][f], the magnitude and
\* the angle of S[i][j][f] within 1e-6 relative error and 1e-6 degrees: no
\* entry is shifted, transposed or dropped.
C16_RoundTrip ==
    (prog = "wave" /\ parsed # None) =>
        /\ Len(parsed[1]) = Len(freqs)
        /\ \A i, j \in Ports : \A f \in 1 .. Len(freqs) :
              /\ MagClose(parsed[2][i][j][f].mag, np_abs(S[i][j][f]))
              /\ AngClose(parsed[2][i][j][f].ang, np_angle_deg(S[i][j][f]))

\* a file of write_s16p was parsed; the matrix differs from its transpose, one
\* magnitude had to be rounded to nine digits and one angle is negative
C16_Witness ==
    /\ prog = "wave" /\ parsed # None /\ Len(parsed[1]) > 1
    /\ \E i, j \in Ports : S[i][j] # S[j][i]
    /\ \E i, j \in Ports : \E f \in 1 .. Len(freqs) :
          Len(parsed[2][i][j][f].mag.digits) = 9
    /\ \E i, j \in Ports : \E f \in 1 .. Len(freqs) : parsed[2][i][j][f].ang.neg

\* the frequency count a file declares in its header comment
DeclaredCount(file) ==
    LET k == CHOOSE k \in 1 .. Len(file) :
                file[k].c = "!" /\ file[k].text \in
                    { "-port S-parameters, frequency points", "ports, frequency points",
                      "Number of frequency points:", "Frequency points:" }
    IN  file[k].ints[Len(file[k].ints)]

\* the frequency data rows of a file
FreqRows(file) == Len(Values(file, 1)) \div (1 + 2 * N_PORTS * N_PORTS)

\* C17: in every Touchstone writer the frequency count declared in the header
\* comment is the number of frequency data rows written to the file.
C17_DeclaredCount ==
    \A n \in 1 .. Len(files) : DeclaredCount(files[n]) = FreqRows(files[n])

Places == {<<i, j, f>> \in Ports \X Ports \X (1 .. Len(parsed[1])) : TRUE}
MagAt(p) == parsed[2][p[1]][p[2]][p[3]].mag
PassivityWarnings ==
    {k \in 1 .. Len(log) : log[k].msg = "WARNING: Max |Sij| (> 1, check simulation)"}

\* C19: validate prints its passivity warning exactly when some |S[i][j][f]|
\* of the file is above 1.05; with every magnitude <= 1 there is no warning,
\* and with one entry of magnitude 1.2 and every other <= 1 there is one
\* warning line, which reports 1.2000.
C19_PassivityWarning ==
    (pc = "file" /\ log # << >>) =>
        /\ PassivityWarnings # {}
              <=> \E p \in Places : DecLess(PassiveLimit, MagAt(p))
        /\ (\A p \in Places : ~DecLess(Tok(FALSE, <<1>>, 0), MagAt(p)))
              => PassivityWarnings = {}
        /\ \A p \in Places :
              (/\ MagAt(p) = Tok(FALSE, <<1, 2>>, -1)
               /\ \A q \in Places \ {p} : ~DecLess(Tok(FALSE, <<1>>, 0), MagAt(q)))
                  => /\ Cardinality(PassivityWarnings) = 1
                     /\ \A k \in PassivityWarnings :
                           log[k].n = Tok(FALSE, <<1, 2, 0, 0, 0>>, -4)

\* validate ran on a file with one magnitude 1.2 and printed the warning
C19_Witness ==
    /\ pc = "file" /\ log # << >>
    /\ \E p \in Places : MagAt(p) = Tok(FALSE, <<1, 2>>, -1)
    /\ Cardinality(PassivityWarnings) = 1

\* C20: for a parsed matrix equal to its transpose the maximum reciprocity
\* error that validate computes is exactly 0 and the 'Reciprocity OK' line is
\* printed.
C20_ReciprocalMatrix ==
    (/\ pc = "file" /\ log # << >>
     /\ \A i, j \in Ports : parsed[2][i][j] = parsed[2][j][i])
        => /\ max_recip_err(parsed[2], Len(parsed[1])) = DecZero
           /\ \E k \in 1 .. Len(log) :
                 /\ log[k].msg = "Reciprocity OK (max |Sij - Sji|)"
                 /\ log[k].n = Tok(FALSE, <<0, 0, 0, 0, 0>>, -4)
           /\ \A k \in 1 .. Len(log) :
                 log[k].msg # "Reciprocity error: max |Sij - Sji|, avg"

\* validate ran on a matrix that equals its transpose and has entries
\* other than 0 off the diagonal
C20_Witness ==
    /\ pc = "file" /\ log # << >>
    /\ \A i, j \in Ports : parsed[2][i][j] = parsed[2][j][i]
    /\ \E i, j \in Ports : i # j /\ parsed[2][i][j][1].mag # DecZero
    /\ \E k \in 1 .. Len(log) : log[k].msg = "Reciprocity OK (max |Sij - Sji|)"

\* C12: when fewer than N Run files of a scenario are there, process_scenario
\* still writes the .s16p file and reports the incompleteness: it does not
\* return without output.
C12_IncompleteScenarioWritten ==
    (pc = "returned" /\ exists # {} /\ exists # Ports) =>
        /\ files # << >>
        /\ result = "True"

\* the words of the file handed to validate
FileWords == Values(files[Len(files)], 1)

\* C21: a file whose number of words is not a whole multiple of 1 + 2*N*N is
\* malformed for the validator's parser: validate fails on it and prints no
\* finding about the blocks that come before the surplus words.
C21_SurplusTokensRejected ==
    (files # << >> /\ log # << >> /\ Len(FileWords) % vals_per_freq # 0)
        => pc = "raised"

\* C26: validate prints the reciprocity warning if and only if the maximum of
\* |S[i][j][f] - S[j][i][f]| is strictly above 0.05; with a maximum of 0.05
\* or less it prints 'Reciprocity OK'.
C26_ReciprocityThreshold ==
    (files # << >> /\ pc = "file" /\ log # << >>
        /\ max_recip_err(parsed[2], Len(parsed[1])).kind = "dec")
        => LET err  == max_recip_err(parsed[2], Len(parsed[1]))
               warn == \E k \in 1 .. Len(log) :
                           log[k].msg = "Reciprocity error: max |Sij - Sji|, avg"
               fine == \E k \in 1 .. Len(log) :
                           log[k].msg = "Reciprocity OK (max |Sij - Sji|)"
           IN  /\ warn <=> DecLess(ReciprocalLimit, err)
               /\ fine <=> ~DecLess(ReciprocalLimit, err)

\* the frequencies of the rows the script's writer wrote, and how far a
\* frequency <<k, n_it * dt>> is from 1 GHz (in units of 1 / (n_it * dt))
WrittenAxis ==
    IF prog = "rx"
    THEN Masked(freqs, [k \in 1 .. Len(freqs) |-> freqs[k][1] * 1000000 >= freqs[k][2]])
    ELSE freqs

From1GHz(fq) == Abs(1000 * fq[1] - fq[2])

\* C22: for a file of any of the writers, whether its option line says GHz or
\* Hz, the diagonal entries validate reports are those of the frequency
\* point nearest to 1 GHz.
C22_NearestTo1GHz ==
    (files # << >> /\ pc = "file" /\ log # << >>)
        => \A k \in 1 .. Len(log) :
              log[k].msg = "Reflection |Sii| at 1 GHz"
                 => /\ log[k].run \in 1 .. Len(WrittenAxis)
                    /\ \A f \in 1 .. Len(WrittenAxis) :
                          From1GHz(WrittenAxis[log[k].run]) <= From1GHz(WrittenAxis[f])

\* the frequency axis of L iterations of step d, before any truncation: one
\* entry per bin of the builder's axis, or per entry of the mask of the wave
\* builder
BinsBuilt == IF prog = "wave" THEN Len(freq_mask) ELSE Len(freqs)

BuiltFrom(L, d) ==
    /\ freqs = IF prog = "wave"
                THEN Masked([k \in 1 .. BinsBuilt |-> <<k - 1, L * d>>], freq_mask)
                ELSE [k \in 1 .. BinsBuilt |-> <<k - 1, L * d>>]
    /\ BinsBuilt > 0

\* C23: the frequency axis a builder makes from a Run of L iterations of step
\* dt has bin k at k / (L * dt), bin 0 at frequency 0 and, when L is even,
\* exactly L/2 + 1 bins before any truncation, the last of them at the
\* Nyquist frequency 1 / (2 * dt).
C23_AxisBins ==
    freqs # None
        => \E j \in DOMAIN runs :
              LET L == runs[j].Iterations
                  d == runs[j].dt
              IN  /\ runs[j].group
                  /\ BuiltFrom(L, d)
                  /\ L % 2 = 0
                        => /\ 2 * BinsBuilt = L + 2
                           /\ 2 * d * (BinsBuilt - 1) = L * d

\* a builder returned an axis made from a Run with an even iteration count
C23_Witness ==
    /\ pc = "done" /\ freqs # None /\ Len(freqs) > 1
    /\ \E j \in DOMAIN runs :
          /\ runs[j].group /\ runs[j].Iterations % 2 = 0
          /\ freqs[2] = <<1, runs[j].Iterations * runs[j].dt>>

\* C25: process_scenario removes the .out files of a scenario only after it
\* has written the scenario's .s16p file: a step that removes a file is the
\* step that writes the file and returns True, it removes all N, and no file
\* is gone when False is returned (files missing, error computing, no data,
\* error writing); with DELETE_OUT set none is left when True is returned.
C25_DeleteAfterWrite ==
    /\ [][exists' # exists
            => /\ result' = "True"
               /\ Len(files') = Len(files) + 1
               /\ exists = Ports /\ exists' = {}]_vars
    /\ [][(result = "none" /\ result' = "False") => exists' = exists]_vars
    /\ []((result = "True" /\ DELETE_OUT) => exists = {})

\* a scenario was written and its files removed
C25_Witness ==
    /\ result = "True" /\ Len(files) = 1 /\ exists = {}
    /\ \E k \in 1 .. Len(log) : log[k].msg = "Deleted .out files"

\* process_scenario printed its SKIP line for the scenario at hand
Skipped ==
    \E k \in 1 .. Len(log) :
        log[k].msg = "SKIP: .out files missing (simulations not done yet?)"

\* C24: main counts a scenario that process_scenario left with its SKIP line
\* (some .out files missing) under 'skipped', not under 'failed'.
C24_SkipCounted ==
    [][(pc = "returned" /\ pc' = "for" /\ Skipped)
            => (skip' = skip + 1 /\ fail' = fail)]_vars

\* the ids the command line asks for, in ascending order
Requested ==
    IF args.scenario # << >> THEN <<args.scenario[1]>>
    ELSE IF args.all THEN [k \in 1 .. LastScenario |-> k]
    ELSE [k \in 1 .. (IF args.range[2] >= args.range[1]
                      THEN args.range[2] - args.range[1] + 1 ELSE 0) |->
              args.range[1] + k - 1]

\* C29: main calls process_scenario once for each requested id and for no
\* other, in ascending order: N for --scenario N (N = 0 included), START to
\* END for --range START END, 1 to the last scenario for --all.
C29_RequestedIds ==
    /\ \A k \in 1 .. Len(calls) : k <= Len(Requested) /\ calls[k] = Requested[k]
    /\ pc \in {"exit", "aborted"} => calls = Requested

\* C30: in main, ok + fail + skip is the number of scenarios processed so
\* far and ok the number of .s16p files written; whatever goes wrong in a
\* scenario (files missing, error computing, error writing), the loop goes
\* on: main is never left by an exception once the loop has begun, and it
\* can always take a next step until the summary is printed.
C30_Counters ==
    /\ pc = "for" => ok + fail + skip = pos
    /\ pc \in {"scenario", "loop", "done", "raised", "returned"}
          => ok + fail + skip = pos - 1
    /\ pos = Len(calls)
    /\ pc = "returned" => ok + (IF result = "True" THEN 1 ELSE 0) = Len(files)
    /\ pc # "returned" => ok = Len(files)
    /\ pos > 0 => pc # "aborted"
    /\ pc = "exit" => pos = Len(ids)
    /\ pc \notin {"exit", "aborted"} => ENABLED NextMain

\* three scenarios were processed: one written, one failed, and the summary
\* was printed
C30_Witness ==
    /\ pc = "exit" /\ Len(calls) = 3
    /\ ok = 1 /\ fail = 2 /\ Len(files) = 1

\* the transmission lines of a deck, in the order of the file, and the
\* amplitude of the waveform called id in it
RECURSIVE PortsOf(_, _)
PortsOf(deck, k) ==
    IF k > Len(deck) THEN << >>
    ELSE (IF deck[k].cmd = "transmission_line" THEN <<deck[k]>> ELSE << >>)
            \o PortsOf(deck, k + 1)

Amplitude(deck, id) ==
    LET k == CHOOSE k \in 1 .. Len(deck) : deck[k].cmd = "waveform" /\ deck[k].id = id
    IN  deck[k].ints[1]

\* C27: the deck a generator writes for transmit index t declares exactly N
\* transmission-line ports, the k-th at antenna k, of which the one at index
\* t alone is driven by a waveform of nonzero amplitude; every other port
\* has a waveform of amplitude 0.
C27_OneActivePort ==
    \A t \in 1 .. Len(files) :
        LET ports == PortsOf(files[t], 1)
        IN  /\ Len(ports) = N_PORTS
            /\ \A k \in 1 .. Len(ports) :
                  /\ ports[k].ints = <<k>>
                  /\ Amplitude(files[t], ports[k].id) # 0 <=> k = t

\* C28: from a file of write_s16p the plotting parser recovers one frequency
\* point for each frequency block written, and the magnitude it stores for
\* S[i][j] at that point is the one written at row-major position i*N + j of
\* the block.
C28_PlotParserBlocks ==
    (files # << >> /\ parsed # None)
        => /\ Len(parsed[1]) = Len(freqs)
           /\ \A i, j \in Ports : \A f \in 1 .. Len(freqs) :
                 /\ f <= Len(parsed[2][i][j])
                 /\ parsed[2][i][j][f] =
                        float(FileWords[(f - 1) * vals_per_freq + 1
                                            + 2 * ((i - 1) * N_PORTS + (j - 1)) + 1])

====
